---- MODULE Spec2Model ----
(***************************************************************************)
(* Model of BatchedSummarizationChain (batchedSummarizationChain.ts):      *)
(* the constructor, invoke and the three strategies (mapReduce, stuff,     *)
(* refine), the batch loop of processDocumentsInBatches, size validation   *)
(* and the stricter-prompt retry.  One behaviour is one chain instance and *)
(* one invoke on it.  The language model, the agent executor and sleep     *)
(* are the environment: a started model call is settled later by           *)
(* ModelResolve or ModelReject, in any order.                              *)
(***************************************************************************)
EXTENDS Integers, Sequences, FiniteSets, TLC

(* ---------------- bounds of the model ---------------- *)
MaxDocs == 3
MaxAgentSteps == 2
MaxConfigs == 1

(* ---------------- program constants (constants.ts) ---------------- *)
DEFAULT_BATCH_SIZE == 5
DEFAULT_DELAY_BETWEEN_BATCHES == 0
MIN_BATCH_SIZE == 1
MIN_DELAY == 0
MAX_BATCH_SIZE == 1000
MAX_DELAY == 600000
maxAttempts == 3

(* ---------------- optional values ---------------- *)
\* An optional JavaScript number (params.batchSize, outputSize...): undefined,
\* or the number value + 1/2 when half, else value.
Undefined == [defined |-> FALSE, value |-> 0, half |-> FALSE]
Num(n) == [defined |-> TRUE, value |-> n, half |-> FALSE]
NumAndHalf(n) == [defined |-> TRUE, value |-> n, half |-> TRUE]
\* a ?? b
Coalesce(a, b) == IF a.defined THEN a ELSE b
\* Math.floor(x)
Floor(x) == x.value
\* JavaScript truthiness of an optional number: undefined and 0 are falsy.
Truthy(o) == o.defined /\ (o.value # 0 \/ o.half)
\* An optional boolean or string parameter.
Absent == [defined |-> FALSE, value |-> "undefined"]
Given(v) == [defined |-> TRUE, value |-> v]

Min2(a, b) == IF a < b THEN a ELSE b
Max2(a, b) == IF a > b THEN a ELSE b
CeilDiv(a, b) == (a + b - 1) \div b

(* ---------------- texts ---------------- *)
\* A text is a sequence of one-character strings.
EmptyText == << >>
\* The separator the strategies join with: the source literal '\\n\\n',
\* that is the four characters backslash, n, backslash, n.
SEPARATOR == << "\\", "n", "\\", "n" >>

RECURSIVE Join(_, _)
\* texts.join(sep)
Join(texts, sep) ==
    IF Len(texts) = 0 THEN EmptyText
    ELSE IF Len(texts) = 1 THEN texts[1]
    ELSE texts[1] \o sep \o Join(Tail(texts), sep)

\* pageContent of the d-th input document (1-based), all distinct.
DocChars == << "p", "q", "r", "s", "t", "u" >>
DocContent(d) == << "d", DocChars[d] >>

\* What the language model may answer: a raw string or a message object
\* with a content field.  ShortText fits the size limit of the model's
\* configurations, LongText exceeds it.
ShortText == << "a" >>
LongText == << "a", "b", "c", "d", "e" >>
ModelResults ==
    { [isString |-> TRUE, value |-> ShortText],
      [isString |-> FALSE, content |-> LongText] }

\* The answer to the map prompt of document d names the document, as a raw
\* string for odd d and as a message object for even d.
MapResult(d) ==
    IF d % 2 = 1
    THEN [isString |-> TRUE, value |-> << "s", DocChars[d] >>]
    ELSE [isString |-> FALSE, content |-> << "s", DocChars[d] >>]

\* typeof result === 'string' ? result : result.content
ResultText(result) == IF result.isString THEN result.value ELSE result.content

(* ---------------- configuration drawn at construction ---------------- *)
RawBatchSizes == { Undefined, Num(0), NumAndHalf(2) }
RawDelays == { Undefined, Num(-5), NumAndHalf(5) }
OutputSizes == { Undefined, Num(0), Num(-1), Num(2) }
SizeMeasurements == { Absent, Given("tokens") }
UseAgents == { Absent, Given("true") }
Types == { "map_reduce", "stuff", "refine", "unknown" }

\* A language-model handle: whether it exposes withConfig, and how many
\* configs have been attached to it.
LanguageModel(hasWithConfig) ==
    [ name |-> "m0", hasWithConfig |-> hasWithConfig, configs |-> 0 ]
\* model.withConfig(config): a new handle bound to the config.
ModelWithConfig(model) == [ model EXCEPT !.configs = @ + 1 ]
Models == { LanguageModel(TRUE), LanguageModel(FALSE) }

VARIABLES
    params,             \* BatchedSummarizationChainParams given to the constructor
    chain,              \* the fields of the BatchedSummarizationChain instance
    documents,          \* input.input_documents, as the sequence of pageContents
    encodingOk,         \* whether js-tiktoken's encodingForModel works in this run
    pc,                 \* the await at which invoke is suspended
    i,                  \* index of the batch loop (0-based, as in the source)
    batchPos,           \* refine: position of the inner loop inside the batch
    summaries,          \* processDocumentsInBatches: summaries
    batchPromises,      \* processDocumentsInBatches: the calls of the current group
    allState,           \* Promise.all(batchPromises): << >> pending, << k >> rejected by call k
    combinedText,       \* stuff / mapReduce: combinedText
    outputText,         \* stuff / mapReduce: outputText, refine: currentSummaryText
    attempt,            \* retryWithShorterPrompt: attempt of the pending retry call
    retryInput,         \* retryWithShorterPrompt: text
    agentSteps,         \* model calls made so far by the running agent executor
    agentBuilt,         \* number of agent executors constructed
    firstValidation,    \* << >> or the first validateOutputSize result of the strategy
    result,             \* << >> or the value invoke resolved with
    error,              \* << >> or the error invoke rejected with
    calls,              \* every model.invoke call made, in start order
    sleeps,             \* every sleep(ms) call made, in order
    outOfOrder,         \* a call settled while an earlier one of its group was in flight
    rejections,         \* the rejected model calls, in the order they rejected
    agentLlm,           \* the llm the agent executor was created with
    signal,             \* the caller's AbortSignal: whether it has fired
    configured,         \* the withConfig calls made on the chain, in order
    node,               \* the node's execute call that hosts the chain, if any
    toolCalls           \* the calls the agent made of its response_validator tool

vars == << params, chain, documents, encodingOk, pc, i, batchPos, summaries,
           batchPromises, allState, combinedText, outputText, attempt, retryInput,
           agentSteps, agentBuilt, firstValidation, result, error, calls, sleeps,
           outOfOrder, rejections, agentLlm, signal, configured, node,
           toolCalls >>

(* ---------------- constructor ---------------- *)
\* Mutant of ClampBatchSize: the upper bound forgotten.
ClampBatchSizeNoMax(raw) ==
    Max2(MIN_BATCH_SIZE, Floor(Coalesce(raw, Num(DEFAULT_BATCH_SIZE))))

\* Mutant of ClampBatchSize: the lower bound forgotten.
ClampBatchSizeNoMin(raw) ==
    Min2(MAX_BATCH_SIZE, Floor(Coalesce(raw, Num(DEFAULT_BATCH_SIZE))))

\* Math.max(MIN_BATCH_SIZE, Math.min(MAX_BATCH_SIZE, Math.floor(rawBatchSize)))
ClampBatchSize(raw) ==
    Max2(MIN_BATCH_SIZE, Min2(MAX_BATCH_SIZE, Floor(Coalesce(raw, Num(DEFAULT_BATCH_SIZE)))))

\* Math.max(MIN_DELAY, Math.min(MAX_DELAY, Math.floor(rawDelay)))
ClampDelay(raw) ==
    Max2(MIN_DELAY,
         Min2(MAX_DELAY, Floor(Coalesce(raw, Num(DEFAULT_DELAY_BETWEEN_BATCHES)))))

\* new BatchedSummarizationChain(params)
Construct(p) ==
    [ model |-> p.model,
      type |-> p.type,
      batchSize |-> ClampBatchSize(p.batchSize),
      delayBetweenBatches |-> ClampDelay(p.delayBetweenBatches),
      outputSize |-> p.outputSize,
      sizeMeasurement |-> Coalesce(p.sizeMeasurement, Given("characters")).value,
      useAgent |-> Coalesce(p.useAgent, Given("false")).value = "true",
      prompts |-> p.prompts ]

(* ---------------- size measurement and validation ---------------- *)
\* Number of tokens js-tiktoken reports for a text.  The tokenizer is a
\* library; it is abstracted as merging pairs of characters.
EncodeLength(text) == CeilDiv(Len(text), 2)

\* measureTextSize(text)
measureTextSize(text) ==
    IF chain.sizeMeasurement = "tokens"
    THEN IF encodingOk THEN EncodeLength(text) ELSE CeilDiv(Len(text), 4)
    ELSE Len(text)

\* Mutant of validateOutputSize: the guard if (!this.outputSize) dropped.
validateOutputSizeUnguarded(text) ==
    LET actualSize == measureTextSize(text)
        isValid == chain.outputSize.defined /\ actualSize <= chain.outputSize.value
    IN IF ~isValid
       THEN [ isValid |-> isValid, actualSize |-> actualSize,
              maxSize |-> chain.outputSize.value,
              unit |-> chain.sizeMeasurement,
              warning |-> << "exceeds", actualSize, chain.outputSize.value >> ]
       ELSE [ isValid |-> isValid, actualSize |-> actualSize,
              maxSize |-> chain.outputSize.value,
              unit |-> chain.sizeMeasurement ]

\* validateOutputSize(text)
validateOutputSize(text) ==
    IF ~Truthy(chain.outputSize)
    THEN [ isValid |-> TRUE, actualSize |-> measureTextSize(text),
           unit |-> chain.sizeMeasurement ]
    ELSE LET actualSize == measureTextSize(text)
             isValid == actualSize <= chain.outputSize.value
             res == [ isValid |-> isValid, actualSize |-> actualSize,
                      maxSize |-> chain.outputSize.value,
                      unit |-> chain.sizeMeasurement ]
         IN IF ~isValid
            THEN [ isValid |-> isValid, actualSize |-> actualSize,
                   maxSize |-> chain.outputSize.value,
                   unit |-> chain.sizeMeasurement,
                   warning |-> << "exceeds", actualSize, chain.outputSize.value >> ]
            ELSE res

(* ---------------- state updates ---------------- *)
\* One step of invoke changes some of its variables; a step is written as the
\* record of the new values and Apply assigns them, leaving the rest alone.
Field(u, name, old) == IF name \in DOMAIN u THEN u[name] ELSE old

Apply(u) ==
    /\ pc' = Field(u, "pc", pc)
    /\ i' = Field(u, "i", i)
    /\ batchPos' = Field(u, "batchPos", batchPos)
    /\ summaries' = Field(u, "summaries", summaries)
    /\ batchPromises' = Field(u, "batchPromises", batchPromises)
    /\ allState' = Field(u, "allState", allState)
    /\ combinedText' = Field(u, "combinedText", combinedText)
    /\ outputText' = Field(u, "outputText", outputText)
    /\ attempt' = Field(u, "attempt", attempt)
    /\ retryInput' = Field(u, "retryInput", retryInput)
    /\ agentSteps' = Field(u, "agentSteps", agentSteps)
    /\ agentBuilt' = Field(u, "agentBuilt", agentBuilt)
    /\ firstValidation' = Field(u, "firstValidation", firstValidation)
    /\ result' = Field(u, "result", result)
    /\ error' = Field(u, "error", error)
    /\ calls' = Field(u, "calls", calls)
    /\ sleeps' = Field(u, "sleeps", sleeps)
    /\ outOfOrder' = Field(u, "outOfOrder", outOfOrder)
    /\ rejections' = Field(u, "rejections", rejections)
    /\ agentLlm' = Field(u, "agentLlm", agentLlm)
    /\ params' = Field(u, "params", params)
    /\ chain' = Field(u, "chain", chain)
    /\ documents' = Field(u, "documents", documents)
    /\ encodingOk' = Field(u, "encodingOk", encodingOk)
    /\ signal' = Field(u, "signal", signal)
    /\ configured' = Field(u, "configured", configured)
    /\ node' = Field(u, "node", node)
    /\ toolCalls' = Field(u, "toolCalls", toolCalls)

(* ---------------- model calls ---------------- *)
\* A call this.model.invoke(prompt) that has been started.  kind names the
\* place of the call; doc is the 1-based document it summarises (0: none);
\* template and text are the prompt; slept is the number of sleeps issued
\* before the call started.
NoResponse == [ isString |-> TRUE, value |-> EmptyText ]

\* Mutant of createSizeConstrainedPrompt: every defined limit wraps.
createSizeConstrainedPromptAnyLimit(baseTemplate) ==
    [ base |-> baseTemplate, sizeBlock |-> chain.outputSize.defined ]

\* createSizeConstrainedPrompt(baseTemplate): the template, and whether the
\* size-constraint block has been put around it.
createSizeConstrainedPrompt(baseTemplate) ==
    [ base |-> baseTemplate, sizeBlock |-> Truthy(chain.outputSize) ]

\* The prompts that have a default built by getDefaultPrompt,
\* getDefaultCombinePrompt or getDefaultRefinePrompt.
DefaultTemplates ==
    { "prompt", "combinePrompt", "combineMapPrompt", "questionPrompt", "refinePrompt" }

\* this.prompt ?? this.getDefaultPrompt(), and alike for the other prompts;
\* the retry and agent templates are built without createSizeConstrainedPrompt.
PromptTemplateOf(template) ==
    IF template \in DefaultTemplates /\ ~chain.prompts.defined
    THEN createSizeConstrainedPrompt(template)
    ELSE [ base |-> template, sizeBlock |-> FALSE ]

NewCallConstructorModel(kind, doc, template, text, existing, att) ==
    [ kind |-> kind, doc |-> doc, template |-> template, text |-> text,
      existing |-> existing, attempt |-> att, model |-> params.model,
      sizeBlock |-> PromptTemplateOf(template).sizeBlock,
      slept |-> Len(sleeps), status |-> "inflight", response |-> NoResponse ]

NewCall(kind, doc, template, text, existing, att) ==
    [ kind |-> kind, doc |-> doc, template |-> template, text |-> text,
      existing |-> existing, attempt |-> att, model |-> chain.model,
      sizeBlock |-> PromptTemplateOf(template).sizeBlock,
      slept |-> Len(sleeps), status |-> "inflight", response |-> NoResponse ]

InFlight == { k \in 1..Len(calls) : calls[k].status = "inflight" }
LastCall == Len(calls)
ModelError(k) == [ kind |-> "model", call |-> k ]
UnknownTypeError == [ kind |-> "unknown_type", call |-> 0 ]

\* The prompt submitted by call k.
PromptOf(k) ==
    << calls[k].kind, calls[k].doc, calls[k].template, calls[k].text,
       calls[k].existing, calls[k].attempt >>

\* Mutant of Reject: the prompt of a failed model call is submitted once more
\* before the error is given up on.
RejectAfterResubmit(err) ==
    IF err.kind = "model"
       /\ \A j \in 1..Len(calls) : j # err.call => PromptOf(j) # PromptOf(err.call)
    THEN [ calls |-> Append(calls, [ calls[err.call] EXCEPT !.status = "inflight" ]) ]
    ELSE [ pc |-> "rejected", error |-> << err >> ]

\* throw err out of invoke
Reject(err) == [ pc |-> "rejected", error |-> << err >> ]

(* ---------------- size validation and retry ---------------- *)
\* The return statement of a strategy.
Return(text, sizeValidation, retryCount) ==
    [ pc |-> "resolved",
      result |-> << [ text |-> text,
                      sizeValidation |-> sizeValidation @@ [ retryCount |-> retryCount ] ] >> ]

\* The three escalating instruction templates of retryWithShorterPrompt.
strictPrompts == << "SIZE VIOLATION", "FINAL WARNING", "LAST CHANCE" >>

\* Math.min(attempt - 1, strictPrompts.length - 1)
StrictPromptIndex(att) == Min2(att - 1, Len(strictPrompts) - 1)

\* Mutant of StartRetry: a back-off delay is issued before the retry call.
StartRetryAfterDelay(text, att, cs) ==
    [ pc |-> "retry_wait", retryInput |-> text, attempt |-> att,
      sleeps |-> Append(sleeps, [ ms |-> chain.delayBetweenBatches,
                                  inflight |-> 0, started |-> Len(cs) ]),
      calls |-> Append(cs, NewCall("retry", 0, strictPrompts[StrictPromptIndex(att) + 1],
                                   text, EmptyText, att)) ]

\* retryWithShorterPrompt(text, promptTemplate, attempt) up to its await of
\* this.model.invoke.
StartRetry(text, att, cs) ==
    [ pc |-> "retry_wait", retryInput |-> text, attempt |-> att,
      calls |-> Append(cs, NewCall("retry", 0, strictPrompts[StrictPromptIndex(att) + 1],
                                   text, EmptyText, att)) ]

\* Mutant of RetryReturns: a fitting response does not end the loop.
RetryReturnsNeverEarly(resultText, att) ==
    att >= maxAttempts

\* Mutant of RetryReturns: > in place of >=, one more attempt.
RetryReturnsLate(resultText, att) ==
    validateOutputSize(resultText).isValid \/ att > maxAttempts

\* Whether retryWithShorterPrompt returns resultText after this attempt.
RetryReturns(resultText, att) ==
    validateOutputSize(resultText).isValid \/ att >= maxAttempts

\* Mutant of AfterRetry: a text still over the limit after the retries is an error.
AfterRetryThrowing(resultText, att) ==
    IF validateOutputSize(resultText).isValid
    THEN Return(resultText, validateOutputSize(resultText), 1)
         @@ [ outputText |-> resultText ]
    ELSE Reject([ kind |-> "size", call |-> 0 ])

\* The strategy after retryWithShorterPrompt has returned resultText:
\* validate again, retryCount = 1, return.
AfterRetry(resultText, att) ==
    Return(resultText, validateOutputSize(resultText), 1)
    @@ [ outputText |-> resultText ]

\* Mutant of ValidateAndRetry: the retry is entered whenever a limit is set,
\* whether the validation failed or not.
ValidateAndRetryAlways(text, retryText, cs) ==
    LET sizeValidation == validateOutputSize(text) IN
    IF Truthy(chain.outputSize)
    THEN StartRetry(retryText, 1, cs)
         @@ [ outputText |-> text, firstValidation |-> << sizeValidation >> ]
    ELSE Return(text, sizeValidation, 0)
         @@ [ outputText |-> text, firstValidation |-> << sizeValidation >>,
              calls |-> cs ]

\* "Validate output size and retry if needed" of stuff, mapReduce and refine.
ValidateAndRetry(text, retryText, cs) ==
    LET sizeValidation == validateOutputSize(text) IN
    IF ~sizeValidation.isValid /\ Truthy(chain.outputSize)
    THEN StartRetry(retryText, 1, cs)
         @@ [ outputText |-> text, firstValidation |-> << sizeValidation >> ]
    ELSE Return(text, sizeValidation, 0)
         @@ [ outputText |-> text, firstValidation |-> << sizeValidation >>,
              calls |-> cs ]

(* ---------------- final generation of stuff and mapReduce ---------------- *)
\* The if (this.outputSize && this.useAgent) of stuff and mapReduce, up to
\* the first await: either the agent path is entered or the plain call starts.
PlainKind == IF chain.type = "stuff" THEN "stuff" ELSE "combine"
PlainTemplate == IF chain.type = "stuff" THEN "prompt" ELSE "combinePrompt"

StartPlain(text) ==
    [ pc |-> "plain_wait", combinedText |-> text,
      calls |-> Append(calls, NewCall(PlainKind, 0, PlainTemplate, text, EmptyText, 0)) ]

UsesAgent == Truthy(chain.outputSize) /\ chain.useAgent

\* Mutant of Generate: the agent path is entered on useAgent alone.
GenerateAgentWithoutLimit(text) ==
    IF chain.useAgent
    THEN [ pc |-> "agent_create", combinedText |-> text, agentSteps |-> 0,
           agentLlm |-> chain.model ]
    ELSE StartPlain(text)

Generate(text) ==
    IF UsesAgent
    THEN [ pc |-> "agent_create", combinedText |-> text, agentSteps |-> 0,
           agentLlm |-> chain.model ]
    ELSE StartPlain(text)

(* ---------------- processDocumentsInBatches ---------------- *)
NumDocs == Len(documents)

\* documents.slice(from, to) as the 1-based document numbers it holds.
Slice(from, to, n) ==
    [ j \in 1..(Min2(to, n) - Min2(from, n)) |-> from + j ]

\* Mutant of Batch: documents.slice(i), the end of the slice forgotten.
BatchWithoutEnd(i0) == Slice(i0, NumDocs, NumDocs)

\* documents.slice(i, i + this.batchSize)
Batch(i0) == Slice(i0, i0 + chain.batchSize, NumDocs)

\* batch.map(async (doc) => ... this.model.invoke(formatted) ...): every
\* call of the group is started.
FanOut(i0, sums) ==
    LET batch == Batch(i0)
        started == [ j \in 1..Len(batch) |->
                       NewCall("map", batch[j], "combineMapPrompt",
                               DocContent(batch[j]), EmptyText, 0) ]
    IN [ pc |-> "map_wait", i |-> i0, summaries |-> sums,
         batchPromises |-> [ j \in 1..Len(batch) |-> Len(calls) + j ],
         allState |-> << >>,
         calls |-> calls \o started ]

\* mapReduce after processDocumentsInBatches has returned.
Reduce(sums) ==
    Generate(Join(sums, SEPARATOR)) @@ [ summaries |-> sums, batchPromises |-> << >> ]

\* The head of the for loop: i < documents.length.
MapLoop(i0, sums) ==
    IF i0 < NumDocs THEN FanOut(i0, sums) ELSE Reduce(sums)

\* The value Promise.all(batchPromises) resolves with.
BatchResults(promises, cs) ==
    [ j \in 1..Len(promises) |-> ResultText(cs[promises[j]].response) ]

\* Mutant of Push: summaries.unshift(...batchResults).
PushFront(sums, batchResults) == batchResults \o sums

\* summaries.push(...batchResults)
Push(sums, batchResults) == sums \o batchResults

\* Mutant of SleepsAfter: the check of delayBetweenBatches > 0 dropped.
SleepsAfterAnyDelay(i0, n) == i0 + chain.batchSize < n

\* Mutant of SleepsAfter: <= in place of <, a delay after the last group.
SleepsAfterLast(i0, n) ==
    i0 + chain.batchSize <= n /\ chain.delayBetweenBatches > 0

\* Whether the loop body sleeps after the group that starts at i0.
SleepsAfter(i0, n) ==
    i0 + chain.batchSize < n /\ chain.delayBetweenBatches > 0

(* ---------------- refine ---------------- *)
\* Mutant of NumRemaining: the batch loop runs over all the documents, the
\* first one included.
NumRemainingWithFirst == NumDocs

\* remainingDocs = documents.slice(1)
NumRemaining == NumDocs - 1

RECURSIVE RefineLoop(_, _), RefineBatch(_, _, _)
\* The head of the outer for loop of refine: i < remainingDocs.length; after
\* the loop the running summary is validated.
RefineLoop(i0, cur) ==
    IF i0 < NumRemaining
    THEN RefineBatch(i0, 0, cur)
    ELSE ValidateAndRetry(cur, cur, calls)

\* Mutant of RefineBatch: the prompt is formatted with the summary held before
\* the last response was stored.
RefineBatchStale(i0, j0, cur) ==
    LET batch == Slice(i0, i0 + chain.batchSize, NumRemaining) IN
    IF j0 < Len(batch)
    THEN [ pc |-> "refine_wait", i |-> i0, batchPos |-> j0, outputText |-> cur,
           calls |-> Append(calls, NewCall("refine", batch[j0 + 1] + 1, "refinePrompt",
                                           DocContent(batch[j0 + 1] + 1), outputText, 0)) ]
    ELSE IF SleepsAfter(i0, NumRemaining)
    THEN [ pc |-> "refine_sleep", i |-> i0, batchPos |-> j0, outputText |-> cur,
           sleeps |-> Append(sleeps, [ ms |-> chain.delayBetweenBatches,
                                       inflight |-> Cardinality(InFlight),
                                       started |-> Len(calls) ]) ]
    ELSE RefineLoop(i0 + chain.batchSize, cur) @@ [ batchPos |-> 0 ]

\* The inner loop for (const doc of batch) at position j0 of the batch that
\* starts at i0, and after it the delay between batches.
RefineBatch(i0, j0, cur) ==
    LET batch == Slice(i0, i0 + chain.batchSize, NumRemaining) IN
    IF j0 < Len(batch)
    THEN [ pc |-> "refine_wait", i |-> i0, batchPos |-> j0, outputText |-> cur,
           calls |-> Append(calls, NewCall("refine", batch[j0 + 1] + 1, "refinePrompt",
                                           DocContent(batch[j0 + 1] + 1), cur, 0)) ]
    ELSE IF SleepsAfter(i0, NumRemaining)
    THEN [ pc |-> "refine_sleep", i |-> i0, batchPos |-> j0, outputText |-> cur,
           sleeps |-> Append(sleeps, [ ms |-> chain.delayBetweenBatches,
                                       inflight |-> Cardinality(InFlight),
                                       started |-> Len(calls) ]) ]
    ELSE RefineLoop(i0 + chain.batchSize, cur) @@ [ batchPos |-> 0 ]

(* ---------------- initial state ---------------- *)
\* A chain used directly, outside the node.
NotHosted == [ pc |-> "none", stragglers |-> 0 ]

\* The states after new BatchedSummarizationChain(params), before invoke, for
\* params drawn from the given sets.
InitOf(types, batchSizes, delays, outputSizes, sizeMeasurements, useAgents, models, prompts) ==
    /\ \E t \in types, b \in batchSizes, d \in delays, o \in outputSizes,
          m \in sizeMeasurements, a \in useAgents, lm \in models, pr \in prompts :
          params = [ model |-> lm, type |-> t, batchSize |-> b,
                     delayBetweenBatches |-> d, outputSize |-> o,
                     sizeMeasurement |-> m, useAgent |-> a, prompts |-> pr ]
    /\ chain = Construct(params)
    /\ \E n \in 0..MaxDocs : documents = [ d \in 1..n |-> DocContent(d) ]
    /\ encodingOk \in (IF chain.sizeMeasurement = "tokens" THEN BOOLEAN ELSE { TRUE })
    /\ pc = "idle"
    /\ i = 0
    /\ batchPos = 0
    /\ summaries = << >>
    /\ batchPromises = << >>
    /\ allState = << >>
    /\ combinedText = EmptyText
    /\ outputText = EmptyText
    /\ attempt = 0
    /\ retryInput = EmptyText
    /\ agentSteps = 0
    /\ agentBuilt = 0
    /\ firstValidation = << >>
    /\ result = << >>
    /\ error = << >>
    /\ calls = << >>
    /\ sleeps = << >>
    /\ outOfOrder = FALSE
    /\ rejections = << >>
    /\ agentLlm = chain.model
    /\ signal = FALSE
    /\ configured = << >>
    /\ node = NotHosted
    /\ toolCalls = << >>

Init ==
    InitOf(Types, RawBatchSizes, RawDelays, OutputSizes, SizeMeasurements, UseAgents,
           { LanguageModel(TRUE) }, { Absent })

(* ---------------- invoke ---------------- *)
\* Mutant of mapReduce: an empty document list returns at once, as in refine.
mapReduceEmptyShortcut ==
    IF NumDocs = 0
    THEN Return(EmptyText, validateOutputSize(EmptyText), 0)
         @@ [ firstValidation |-> << validateOutputSize(EmptyText) >> ]
    ELSE MapLoop(0, << >>)

\* mapReduce(documents) up to its first await.
mapReduce == MapLoop(0, << >>)

\* Mutant of stuff: the documents are summarised one by one and then combined.
stuffPerDocument == MapLoop(0, << >>)

\* stuff(documents) up to its first await.
stuff == Generate(Join(documents, SEPARATOR))

\* refine(documents) up to its first await.
refine ==
    IF NumDocs = 0
    THEN Return(EmptyText, validateOutputSize(EmptyText), 0)
         @@ [ firstValidation |-> << validateOutputSize(EmptyText) >> ]
    ELSE [ pc |-> "question_wait",
           calls |-> Append(calls, NewCall("question", 1, "questionPrompt",
                                           DocContent(1), EmptyText, 0)) ]

\* Mutant of invokeSwitch: the default case falls back to stuff.
invokeSwitchDefaultStuff ==
    CASE chain.type = "map_reduce" -> mapReduce
      [] chain.type = "refine" -> refine
      [] OTHER -> stuff

\* The switch (this.type) of invoke.
invokeSwitch ==
    CASE chain.type = "map_reduce" -> mapReduce
      [] chain.type = "stuff" -> stuff
      [] chain.type = "refine" -> refine
      [] OTHER -> Reject(UnknownTypeError)

\* invoke(input): the switch on this.type and the selected strategy up to
\* its first await.
Invoke ==
    /\ pc = "idle"
    /\ Apply(invokeSwitch)

(* ---------------- the language model (environment) ---------------- *)
\* Mutant of PromiseAllOnReject: every rejection overwrites the previous one.
PromiseAllLastReject(state, promises, k) ==
    IF \E j \in 1..Len(promises) : promises[j] = k
    THEN << k >>
    ELSE state

\* Promise.all(promises) when its promise k rejects: it rejects with the
\* first rejection and ignores the later ones.
PromiseAllOnReject(state, promises, k) ==
    IF state = << >> /\ \E j \in 1..Len(promises) : promises[j] = k
    THEN << k >>
    ELSE state

\* Mutant of PromiseAllResolved: Promise.allSettled, a rejected call counts
\* as done.
PromiseAllSettled(promises, cs) ==
    \A j \in 1..Len(promises) : cs[promises[j]].status # "inflight"

\* Mutant of PromiseAllResolved: Promise.any, the first resolution is enough.
PromiseAnyResolved(promises, cs) ==
    \E j \in 1..Len(promises) : cs[promises[j]].status = "resolved"

\* Promise.all(promises) resolves when every promise has resolved.
PromiseAllResolved(promises, cs) ==
    \A j \in 1..Len(promises) : cs[promises[j]].status = "resolved"

\* Whether call k settles while an earlier call of the awaited group is pending.
Overtakes(k) ==
    \E a, b \in 1..Len(batchPromises) :
        a < b /\ batchPromises[b] = k /\ calls[batchPromises[a]].status = "inflight"

\* The results the environment may give to call k.  The answers to the map
\* prompts and to the agent's prompts do not influence the control flow of
\* invoke; one answer each is explored.
Answers(k) ==
    IF calls[k].kind = "map" THEN { MapResult(calls[k].doc) }
    ELSE IF calls[k].kind = "agent" THEN { [isString |-> FALSE, content |-> ShortText] }
    ELSE ModelResults

\* A pending model call resolves with result r.
ModelResolve(k, r) ==
    /\ calls[k].status = "inflight"
    /\ r \in Answers(k)
    /\ Apply([ calls |-> [ calls EXCEPT ![k].status = "resolved", ![k].response = r ],
               outOfOrder |-> (outOfOrder \/ Overtakes(k)) ])

\* A pending model call rejects.  Promise.all of the awaited group rejects
\* with the first rejection among its promises.
ModelReject(k) ==
    /\ calls[k].status = "inflight"
    /\ Apply([ calls |-> [ calls EXCEPT ![k].status = "rejected" ],
               outOfOrder |-> (outOfOrder \/ Overtakes(k)),
               rejections |-> Append(rejections, k),
               allState |-> PromiseAllOnReject(allState, batchPromises, k) ])

(* ---------------- continuations of processDocumentsInBatches ---------------- *)
\* await Promise.all(batchPromises) resolves: push the results, then sleep,
\* start the next group, or return to mapReduce.
MapGroupResolved ==
    /\ pc = "map_wait"
    /\ PromiseAllResolved(batchPromises, calls)
    /\ LET sums == Push(summaries, BatchResults(batchPromises, calls)) IN
       IF SleepsAfter(i, NumDocs)
       THEN Apply([ pc |-> "map_sleep", summaries |-> sums,
                    sleeps |-> Append(sleeps, [ ms |-> chain.delayBetweenBatches,
                                                inflight |-> Cardinality(InFlight),
                                                started |-> Len(calls) ]) ])
       ELSE Apply(MapLoop(i + chain.batchSize, sums))

\* await Promise.all(batchPromises) rejects: the error leaves invoke.
MapGroupRejected ==
    /\ pc = "map_wait"
    /\ allState # << >>
    /\ Apply(Reject(ModelError(allState[1])))

\* await sleep(this.delayBetweenBatches) returns in processDocumentsInBatches.
MapSleepDone ==
    /\ pc = "map_sleep"
    /\ Apply(MapLoop(i + chain.batchSize, summaries))

(* ---------------- continuations of the sequential awaits ---------------- *)
\* The plain final generation of stuff / mapReduce has returned.
PlainDone ==
    /\ pc = "plain_wait"
    /\ calls[LastCall].status = "resolved"
    /\ Apply(ValidateAndRetry(ResultText(calls[LastCall].response), combinedText, calls))

\* Mutant of AwaitRejected: the rejection of a size retry is never delivered.
AwaitRejectedRetryHangs ==
    /\ pc \in { "plain_wait", "question_wait", "refine_wait" }
    /\ calls[LastCall].status = "rejected"
    /\ Apply(Reject(ModelError(LastCall)))

\* Mutant of AwaitRejected: refine goes on to the next document when a
\* refinement call rejects.
AwaitRejectedRefineGoesOn ==
    /\ pc \in { "plain_wait", "question_wait", "refine_wait", "retry_wait" }
    /\ calls[LastCall].status = "rejected"
    /\ IF pc = "refine_wait"
       THEN Apply(RefineBatch(i, batchPos + 1, outputText))
       ELSE Apply(Reject(ModelError(LastCall)))

\* An awaited this.model.invoke outside the agent try block rejects.
AwaitRejected ==
    /\ pc \in { "plain_wait", "question_wait", "refine_wait", "retry_wait" }
    /\ calls[LastCall].status = "rejected"
    /\ Apply(Reject(ModelError(LastCall)))

\* The model call of retryWithShorterPrompt has returned.
RetryDone ==
    /\ pc = "retry_wait"
    /\ calls[LastCall].status = "resolved"
    /\ LET resultText == ResultText(calls[LastCall].response) IN
       IF RetryReturns(resultText, attempt)
       THEN Apply(AfterRetry(resultText, attempt))
       ELSE Apply(StartRetry(retryInput, attempt + 1, calls))

\* refine: the initial summary has returned.
QuestionDone ==
    /\ pc = "question_wait"
    /\ calls[LastCall].status = "resolved"
    /\ LET cur == ResultText(calls[LastCall].response) IN
       IF NumDocs > 1
       THEN Apply(RefineLoop(0, cur))
       ELSE Apply(ValidateAndRetry(cur, cur, calls))

\* refine: a refinement call has returned.
RefineDone ==
    /\ pc = "refine_wait"
    /\ calls[LastCall].status = "resolved"
    /\ Apply(RefineBatch(i, batchPos + 1, ResultText(calls[LastCall].response)))

\* await sleep(this.delayBetweenBatches) returns in refine.
RefineSleepDone ==
    /\ pc = "refine_sleep"
    /\ Apply(RefineLoop(i + chain.batchSize, outputText))

(* ---------------- the agent path (environment: langchain agents) ---------------- *)
\* What agentResult.output may be.
AgentOutputs ==
    { [ defined |-> FALSE, value |-> EmptyText ],
      [ defined |-> TRUE, value |-> ShortText ],
      [ defined |-> TRUE, value |-> LongText ] }

\* agentResult.output || ''
OutputOrEmpty(o) == IF o.defined /\ o.value # EmptyText THEN o.value ELSE EmptyText

\* createSizeConstrainedAgentExecutor returns an executor and
\* agentExecutor.invoke is entered.
AgentCreated ==
    /\ pc = "agent_create"
    /\ Apply([ pc |-> "agent_run", agentBuilt |-> agentBuilt + 1 ])

\* Mutant of Fallback: the catch block rethrows the agent's failure.
FallbackRethrows == Reject([ kind |-> "agent", call |-> 0 ])

\* The catch block of stuff / mapReduce: the plain call with the normal prompt.
Fallback == StartPlain(combinedText)

\* createToolCallingAgent throws.
AgentCreateFails ==
    /\ pc = "agent_create"
    /\ Apply(Fallback)

\* The agent executor calls the language model.
AgentCallsModel ==
    /\ pc = "agent_run"
    /\ agentSteps < MaxAgentSteps
    /\ Apply([ pc |-> "agent_wait", agentSteps |-> agentSteps + 1,
               calls |-> Append(calls, [ NewCall("agent", 0, "agentPrompt", combinedText,
                                                 EmptyText, 0)
                                         EXCEPT !.model = agentLlm ]) ])

\* The model call of the agent executor has returned: the agent goes on.
AgentStepDone ==
    /\ pc = "agent_wait"
    /\ calls[LastCall].status = "resolved"
    /\ Apply([ pc |-> "agent_run" ])

\* Mutant of AfterAgent: the text the agent checked with its tools is returned
\* without the retry.
AfterAgentTrusted(text) ==
    Return(text, validateOutputSize(text), 0)
    @@ [ outputText |-> text, firstValidation |-> << validateOutputSize(text) >> ]

\* stuff / mapReduce after invokeSummarizationWithAgent has returned text.
AfterAgent(text) == ValidateAndRetry(text, combinedText, calls)

\* agentExecutor.invoke resolves.
AgentReturns(o) ==
    /\ pc = "agent_run"
    /\ Apply(AfterAgent(OutputOrEmpty(o)))

\* agentExecutor.invoke rejects: by itself, or because its model call rejected.
AgentFails ==
    /\ \/ pc = "agent_run"
       \/ pc = "agent_wait" /\ calls[LastCall].status = "rejected"
    /\ Apply(Fallback)

(* ---------------- specification ---------------- *)
Next ==
    \/ Invoke
    \/ \E k \in 1..Len(calls) : \E r \in Answers(k) : ModelResolve(k, r)
    \/ \E k \in 1..Len(calls) : ModelReject(k)
    \/ MapGroupResolved
    \/ MapGroupRejected
    \/ MapSleepDone
    \/ PlainDone
    \/ AwaitRejected
    \/ RetryDone
    \/ QuestionDone
    \/ RefineDone
    \/ RefineSleepDone
    \/ AgentCreated
    \/ AgentCreateFails
    \/ AgentCallsModel
    \/ AgentStepDone
    \/ \E o \in AgentOutputs : AgentReturns(o)
    \/ AgentFails

Spec == Init /\ [][Next]_vars

(* ---------------- progress ---------------- *)
\* A pending model call settles.
ModelSettles ==
    \E k \in 1..Len(calls) : (\E r \in Answers(k) : ModelResolve(k, r)) \/ ModelReject(k)
\* A pending sleep(ms) completes.
SleepCompletes == MapSleepDone \/ RefineSleepDone
\* The code after an await runs once the awaited promise has settled.
Continues ==
    \/ Invoke
    \/ MapGroupResolved
    \/ MapGroupRejected
    \/ PlainDone
    \/ AwaitRejected
    \/ RetryDone
    \/ QuestionDone
    \/ RefineDone
\* The agent executor is created or fails to be, and once running it goes on:
\* it calls the model, gets the answer, returns or fails.
AgentProceeds ==
    \/ AgentCreated
    \/ AgentCreateFails
    \/ AgentCallsModel
    \/ AgentStepDone
    \/ \E o \in AgentOutputs : AgentReturns(o)
    \/ AgentFails

\* Every model call and every delay eventually completes, the event loop
\* runs every continuation that is ready, and the agent executor does not
\* stall.
Fairness ==
    /\ WF_vars(ModelSettles)
    /\ WF_vars(SleepCompletes)
    /\ WF_vars(Continues)
    /\ WF_vars(AgentProceeds)

\* Every strategy, batch size, delay, size limit and agent flag, sizes
\* measured in characters.
InitLive ==
    InitOf(Types, RawBatchSizes, RawDelays, OutputSizes, { Absent }, UseAgents,
           { LanguageModel(TRUE) }, { Absent })

SpecLive == InitLive /\ [][Next]_vars /\ Fairness

(* ---------------- batch sizes and delays around the bounds ---------------- *)
ClampBatchSizes ==
    { Undefined, Num(-3), Num(0), NumAndHalf(2), Num(3), Num(MAX_BATCH_SIZE),
      Num(MAX_BATCH_SIZE + 1) }
ClampDelays ==
    { Undefined, Num(-5), Num(0), NumAndHalf(5), Num(MAX_DELAY), Num(MAX_DELAY + 1) }

InitClamp ==
    InitOf(Types, ClampBatchSizes, ClampDelays, { Undefined, Num(2) }, { Absent },
           UseAgents, { LanguageModel(TRUE) }, { Absent })

SpecClamp == InitClamp /\ [][Next]_vars

(* ---------------- a chain shared with its caller ---------------- *)
\* The config argument of withConfig: undefined, or a config object.
Configs == { [ truthy |-> FALSE ], [ truthy |-> TRUE ] }

\* Mutant of withConfig: the test of config dropped.
withConfigUnchecked(config) ==
    LET bound == IF chain.model.hasWithConfig
                 THEN [ chain EXCEPT !.model = ModelWithConfig(chain.model) ]
                 ELSE chain
    IN [ receiver |-> bound, returned |-> [ isReceiver |-> TRUE, fields |-> bound ] ]

\* Mutant of withConfig: a new chain bound to the new handle is returned and
\* the receiver is left as it was.
withConfigCopy(config) ==
    LET bound == IF config.truthy /\ chain.model.hasWithConfig
                 THEN [ chain EXCEPT !.model = ModelWithConfig(chain.model) ]
                 ELSE chain
    IN [ receiver |-> chain, returned |-> [ isReceiver |-> FALSE, fields |-> bound ] ]

\* withConfig(config): the fields of the receiver afterwards and the returned
\* reference, which is this.
withConfig(config) ==
    LET bound == IF config.truthy /\ chain.model.hasWithConfig
                 THEN [ chain EXCEPT !.model = ModelWithConfig(chain.model) ]
                 ELSE chain
    IN [ receiver |-> bound, returned |-> [ isReceiver |-> TRUE, fields |-> bound ] ]

\* The caller calls withConfig(config) on the chain, before invoke or while
\* invoke is suspended at an await.
WithConfig(config) ==
    /\ pc \notin { "resolved", "rejected" }
    /\ Len(configured) < MaxConfigs
    /\ chain' = withConfig(config).receiver
    /\ configured' = Append(configured, [ config |-> config, before |-> chain,
                                          receiver |-> withConfig(config).receiver,
                                          returned |-> withConfig(config).returned,
                                          started |-> Len(calls), at |-> pc ])
    /\ UNCHANGED << params, documents, encodingOk, pc, i, batchPos, summaries,
                    batchPromises, allState, combinedText, outputText, attempt,
                    retryInput, agentSteps, agentBuilt, firstValidation, result, error,
                    calls, sleeps, outOfOrder, rejections, agentLlm, signal, node,
                    toolCalls >>

\* The AbortSignal the caller handed to invoke in its config argument fires
\* while invoke runs.  invoke does not read its config argument.
Abort ==
    /\ pc \notin { "idle", "resolved", "rejected" }
    /\ ~signal
    /\ signal' = TRUE
    /\ UNCHANGED << params, chain, documents, encodingOk, pc, i, batchPos, summaries,
                    batchPromises, allState, combinedText, outputText, attempt,
                    retryInput, agentSteps, agentBuilt, firstValidation, result, error,
                    calls, sleeps, outOfOrder, rejections, agentLlm, configured, node,
                    toolCalls >>

\* Without the agent the limit is absent or 2, so that outputs are retried;
\* with the agent the limit is 5, which every output of the model fits.
InitShared ==
    \/ InitOf(Types, { Num(0) }, { NumAndHalf(5) }, { Undefined, Num(2) },
              { Absent }, { Absent }, Models, { Given("custom") })
    \/ InitOf(Types, { Num(0) }, { NumAndHalf(5) }, { Num(5) },
              { Absent }, { Given("true") }, { LanguageModel(TRUE) }, { Given("custom") })

NextShared ==
    \/ Next
    \/ \E config \in Configs : WithConfig(config)
    \/ Abort

SpecShared == InitShared /\ [][NextShared]_vars

(* ---------------- the agent's response_validator tool ---------------- *)
MaxToolCalls == 2

\* Texts the agent may hand to the tool: of size below, at and above the limit.
ToolTexts == { EmptyText, ShortText, << "a", "b" >>, LongText }

\* Mutant of ResponseValidatorTool: < in place of <=.
ResponseValidatorToolStrict(maxSize, unit, text) ==
    LET actualSize == IF unit = "tokens"
                      THEN IF encodingOk THEN EncodeLength(text) ELSE CeilDiv(Len(text), 4)
                      ELSE Len(text)
    IN [ isValid |-> actualSize < maxSize.value, actualSize |-> actualSize,
         maxSize |-> maxSize.value, unit |-> unit ]

\* new ResponseValidatorTool(maxSize, unit)._call(text): the object it
\* reports, without the message.
ResponseValidatorTool(maxSize, unit, text) ==
    LET actualSize == IF unit = "tokens"
                      THEN IF encodingOk THEN EncodeLength(text) ELSE CeilDiv(Len(text), 4)
                      ELSE Len(text)
    IN [ isValid |-> actualSize <= maxSize.value, actualSize |-> actualSize,
         maxSize |-> maxSize.value, unit |-> unit ]

\* The running agent calls the response_validator tool that
\* createSizeConstrainedAgentExecutor built from this.outputSize and
\* this.sizeMeasurement.
AgentValidates(text) ==
    /\ pc = "agent_run"
    /\ Len(toolCalls) < MaxToolCalls
    /\ Apply([ toolCalls |->
                 Append(toolCalls,
                        [ text |-> text,
                          report |-> ResponseValidatorTool(chain.outputSize,
                                                           chain.sizeMeasurement, text) ]) ])

InitTool ==
    InitOf(Types, { Num(0) }, { NumAndHalf(5) }, { Num(2) }, SizeMeasurements,
           { Given("true") }, { LanguageModel(TRUE) }, { Absent })

NextTool ==
    \/ Next
    \/ \E text \in ToolTexts : AgentValidates(text)

SpecTool == InitTool /\ [][NextTool]_vars

(* ---------------- the node's execute loop ---------------- *)
MaxItems == 2

\* The operationMode parameter: the two kinds of mode processItem serves
\* (node input, document loader) and a value it serves in neither branch.
OperationModes == { "nodeInputJson", "documentLoader", "other" }
SupportedModes == { "nodeInputJson", "nodeInputBinary", "documentLoader" }

\* What processItem reads with getNodeParameter for an item and hands to the
\* constructor; useAgent is not handed over.
NodeParameters ==
    { [ model |-> LanguageModel(TRUE), type |-> t,
        batchSize |-> IF t = "map_reduce" THEN Num(2) ELSE Num(1),
        delayBetweenBatches |-> Num(5),
        outputSize |-> IF t = "stuff" THEN Num(2) ELSE Undefined,
        sizeMeasurement |-> Given("characters"), useAgent |-> Absent,
        prompts |-> Absent ] :
      t \in { "map_reduce", "stuff", "refine" } }

\* getTracingConfig(ctx): a config object.
TracingConfig == [ truthy |-> TRUE ]
ConnectionError == [ kind |-> "connection", call |-> 0 ]
LoadError == [ kind |-> "load", call |-> 0 ]

\* The chain processItem constructs for an item with parameters p whose
\* loader yields n documents: nothing of an earlier item's chain is left.
NewChain(p, n) ==
    [ params |-> p, chain |-> Construct(p),
      documents |-> [ d \in 1..n |-> DocContent(d) ], encodingOk |-> TRUE,
      pc |-> "idle", i |-> 0, batchPos |-> 0, summaries |-> << >>,
      batchPromises |-> << >>, allState |-> << >>, combinedText |-> EmptyText,
      outputText |-> EmptyText, attempt |-> 0, retryInput |-> EmptyText,
      agentSteps |-> 0, agentBuilt |-> 0, firstValidation |-> << >>,
      result |-> << >>, error |-> << >>, calls |-> << >>, sleeps |-> << >>,
      outOfOrder |-> FALSE, rejections |-> << >>, agentLlm |-> p.model,
      signal |-> FALSE, configured |-> << >>, toolCalls |-> << >> ]

\* The loop test: the next processItem is called, or execute returns.
LoopTest(nd) ==
    [ nd EXCEPT !.pc = IF nd.itemIndex < nd.numItems THEN "connecting" ELSE "returned" ]
\* itemIndex++ and the loop test.
NextItem(nd) == LoopTest([ nd EXCEPT !.itemIndex = @ + 1 ])
\* Mutant of PushEntry: returnData.unshift({ json }).
PushEntryFront(nd, json) ==
    [ nd EXCEPT !.returnData = << [ item |-> nd.itemIndex, json |-> json ] >> \o @ ]

\* returnData.push({ json }); item records the item the entry was pushed for.
PushEntry(nd, json) ==
    [ nd EXCEPT !.returnData = Append(@, [ item |-> nd.itemIndex, json |-> json ]) ]

\* Mutant of Catch: the error entry is pushed whatever continueOnFail says.
CatchAlwaysContinues(nd, e) ==
    NextItem(PushEntry(nd, [ error |-> e ]))

\* The catch block of the loop.
Catch(nd, e) ==
    IF nd.continueOnFail
    THEN NextItem(PushEntry(nd, [ error |-> e ]))
    ELSE [ nd EXCEPT !.pc = "thrown", !.thrown = e ]

\* processItem rejects with e: the failure is noted and the catch block runs.
Fails(e) ==
    Catch([ node EXCEPT !.failures = Append(@, [ item |-> node.itemIndex, error |-> e ]) ], e)

\* processItem turns to a new chain: the model calls of the chain of an
\* earlier item that are still in flight (calls of a map group whose
\* Promise.all has already rejected) are left running.
Left(nd) == [ nd EXCEPT !.stragglers = @ + Cardinality(InFlight) ]

\* A model call left running by an earlier item settles: nothing awaits it.
\* late counts the calls that settled after their item was left.
StragglerSettles ==
    /\ node.pc # "none"
    /\ node.stragglers > 0
    /\ Apply([ node |-> [ node EXCEPT !.stragglers = @ - 1, !.late = @ + 1 ] ])

\* getInputConnectionData for the language model rejects.
ConnectionFails ==
    /\ node.pc = "connecting"
    /\ Apply([ node |-> Fails(ConnectionError) ])

\* The language model is connected and the chain is constructed; in a
\* supported mode processItem goes on to load the item's documents.
ModelConnected(p, n) ==
    /\ node.pc = "connecting"
    /\ node.operationMode \in SupportedModes
    /\ Apply(NewChain(p, n) @@ [ node |-> [ Left(node) EXCEPT !.pc = "loading" ] ])

\* The language model is connected and the chain is constructed, but the
\* mode is served by neither branch: processItem returns undefined and
\* nothing is pushed.
UnsupportedMode(p) ==
    /\ node.pc = "connecting"
    /\ node.operationMode \notin SupportedModes
    /\ Apply(NewChain(p, 0) @@ [ node |-> NextItem(Left(node)) ])

\* The document loader, the text splitter or the item processor rejects.
LoadFails ==
    /\ node.pc = "loading"
    /\ Apply([ node |-> Fails(LoadError) ])

\* The update u of invoke when run on the chain withConfig(TracingConfig)
\* returned: the calls it starts go to that chain's handle.
Traced(u) ==
    [ chain |-> withConfig(TracingConfig).receiver,
      configured |-> Append(configured,
                            [ config |-> TracingConfig, before |-> chain,
                              receiver |-> withConfig(TracingConfig).receiver,
                              returned |-> withConfig(TracingConfig).returned,
                              started |-> Len(calls), at |-> pc ]) ]
    @@ (IF "calls" \in DOMAIN u
        THEN [ calls |-> [ k \in DOMAIN u.calls |->
                            [ u.calls[k] EXCEPT
                                !.model = withConfig(TracingConfig).receiver.model ] ] ]
        ELSE << >>)
    @@ u

\* The documents are loaded and the chain is invoked: through withConfig in
\* document loader mode, with the cancel signal as config otherwise.
DocumentsLoaded ==
    /\ node.pc = "loading"
    /\ pc = "idle"
    /\ Apply([ node |-> [ node EXCEPT !.pc = "invoking" ] ]
             @@ (IF node.operationMode = "documentLoader"
                 THEN Traced(invokeSwitch)
                 ELSE invokeSwitch))

\* chain.invoke resolved: the result is pushed.
ItemResolved ==
    /\ node.pc = "invoking"
    /\ pc = "resolved"
    /\ Apply([ node |-> NextItem(PushEntry(node, result[1])) ])

\* chain.invoke rejected.
ItemRejected ==
    /\ node.pc = "invoking"
    /\ pc = "rejected"
    /\ Apply([ node |-> Fails(error[1]) ])

\* execute has read operationMode and the items and reaches the loop.
InitNode ==
    /\ \E n \in 0..MaxItems, mode \in OperationModes, continue \in BOOLEAN :
          node = LoopTest([ pc |-> "connecting", itemIndex |-> 0, numItems |-> n,
                            operationMode |-> mode, continueOnFail |-> continue,
                            returnData |-> << >>, thrown |-> << >>,
                            failures |-> << >>, stragglers |-> 0, late |-> 0 ])
    /\ LET none == NewChain(CHOOSE p \in NodeParameters : TRUE, 0) IN
       /\ params = none.params
       /\ chain = none.chain
       /\ documents = none.documents
       /\ encodingOk = none.encodingOk
       /\ pc = none.pc
       /\ i = none.i
       /\ batchPos = none.batchPos
       /\ summaries = none.summaries
       /\ batchPromises = none.batchPromises
       /\ allState = none.allState
       /\ combinedText = none.combinedText
       /\ outputText = none.outputText
       /\ attempt = none.attempt
       /\ retryInput = none.retryInput
       /\ agentSteps = none.agentSteps
       /\ agentBuilt = none.agentBuilt
       /\ firstValidation = none.firstValidation
       /\ result = none.result
       /\ error = none.error
       /\ calls = none.calls
       /\ sleeps = none.sleeps
       /\ outOfOrder = none.outOfOrder
       /\ rejections = none.rejections
       /\ agentLlm = none.agentLlm
       /\ signal = none.signal
       /\ configured = none.configured
       /\ toolCalls = none.toolCalls

NextNode ==
    \/ ConnectionFails
    \/ \E p \in NodeParameters, n \in 0..MaxDocs : ModelConnected(p, n)
    \/ \E p \in NodeParameters : UnsupportedMode(p)
    \/ LoadFails
    \/ DocumentsLoaded
    \/ ItemResolved
    \/ ItemRejected
    \/ StragglerSettles
    \/ \E k \in 1..Len(calls) : \E r \in Answers(k) : ModelResolve(k, r)
    \/ \E k \in 1..Len(calls) : ModelReject(k)
    \/ MapGroupResolved
    \/ MapGroupRejected
    \/ MapSleepDone
    \/ PlainDone
    \/ AwaitRejected
    \/ RetryDone
    \/ QuestionDone
    \/ RefineDone
    \/ RefineSleepDone

SpecNode == InitNode /\ [][NextNode]_vars

(* ---------------- vocabulary of the properties ---------------- *)
CallsOfKind(kinds) == { k \in 1..Len(calls) : calls[k].kind \in kinds }
MapCallsOf(d) == { k \in CallsOfKind({ "map" }) : calls[k].doc = d }
\* The group (0-based) of the map loop that document d belongs to.
GroupOf(d) == (d - 1) \div chain.batchSize
\* invoke is past processDocumentsInBatches, which returned normally.
MapPhaseDone ==
    /\ chain.type = "map_reduce"
    /\ pc \in { "plain_wait", "agent_create", "agent_run", "agent_wait", "retry_wait",
                "resolved" }
MapPhase == pc \in { "map_wait", "map_sleep" }
OtherPhase ==
    pc \in { "plain_wait", "agent_create", "agent_run", "agent_wait", "retry_wait",
             "question_wait", "refine_wait", "refine_sleep" }

(* ---------------- C1 ---------------- *)
\* C1: a MapReduce invoke with delay > 0 whose map phase returned normally has
\* run the map operation exactly once per document, N times in all, and has
\* issued exactly max(0, ceil(N / B) - 1) inter-batch delays.
C1_MapCallsAndDelays ==
    (MapPhaseDone /\ chain.delayBetweenBatches > 0) =>
        /\ Cardinality(CallsOfKind({ "map" })) = NumDocs
        /\ \A d \in 1..NumDocs : Cardinality(MapCallsOf(d)) = 1
        /\ Len(sleeps) = Max2(0, CeilDiv(NumDocs, chain.batchSize) - 1)

C1_Witness ==
    /\ chain.type = "map_reduce"
    /\ pc = "resolved"
    /\ NumDocs = 3
    /\ chain.batchSize = 2
    /\ Len(sleeps) = 1

(* ---------------- C2 ---------------- *)
\* C2: when the map phase has returned, the i-th summary is the normalised
\* response to the map call of the i-th document, and the text handed to the
\* reduce step is these summaries joined in that order, also when calls of a
\* group settled out of input order.
C2_SummariesInInputOrder ==
    MapPhaseDone =>
        /\ Len(summaries) = NumDocs
        /\ \A d \in 1..NumDocs :
              \A k \in MapCallsOf(d) : summaries[d] = ResultText(calls[k].response)
        /\ combinedText = Join(summaries, SEPARATOR)

C2_Witness ==
    /\ MapPhaseDone
    /\ outOfOrder
    /\ NumDocs = 3
    /\ chain.batchSize = 2

(* ---------------- C3 ---------------- *)
\* C3: whenever a map call of a later group exists, every map call of every
\* earlier group has completed (resolved): a group starts only after the
\* whole previous group.
C3_GroupBarrier ==
    \A a, b \in CallsOfKind({ "map" }) :
        GroupOf(calls[a].doc) < GroupOf(calls[b].doc) => calls[a].status = "resolved"

C3_Witness ==
    /\ chain.batchSize = 2
    /\ outOfOrder
    /\ \E b \in CallsOfKind({ "map" }) : calls[b].doc = 3 /\ calls[b].status = "inflight"

(* ---------------- C4 ---------------- *)
\* C4: while invoke runs, at most batchSize model calls are in flight in the
\* map phase and at most one in every other phase.
C4_InFlightBound ==
    /\ MapPhase => Cardinality(InFlight) <= chain.batchSize
    /\ OtherPhase => Cardinality(InFlight) <= 1
    /\ pc \in { "idle", "resolved" } => InFlight = { }

C4_Witness ==
    /\ pc = "map_wait"
    /\ NumDocs = 3
    /\ chain.batchSize = 2
    /\ Cardinality(InFlight) = 2

(* ---------------- C5 ---------------- *)
MapRejected == { k \in CallsOfKind({ "map" }) : calls[k].status = "rejected" }
\* What holds of a rejected map call k apart from the error invoke rejects
\* with: invoke does not go on, no call of a later group exists, no delay was
\* issued after the group of k started and no reduce step was begun.
MapFailureStops(k) ==
    /\ pc \in { "map_wait", "rejected" }
    /\ \A c \in CallsOfKind({ "map" }) : GroupOf(calls[c].doc) <= GroupOf(calls[k].doc)
    /\ Len(sleeps) = calls[k].slept
    /\ CallsOfKind({ "combine", "agent", "retry" }) = { }
    /\ agentBuilt = 0
    /\ result = << >>

\* C5 as stated: for every rejected map call, invoke rejects with the error
\* of that call, no call of a later group is started, no further delay is
\* issued and the reduce call is not made.
C5_Original ==
    \A k \in MapRejected :
        /\ MapFailureStops(k)
        /\ pc = "rejected" => error = << ModelError(k) >>

\* C5 amended: invoke rejects with the error of the first map call to reject;
\* the rest as stated.
C5_FirstRejectionPropagates ==
    \A k \in MapRejected :
        /\ MapFailureStops(k)
        /\ pc = "rejected" =>
              /\ error = << ModelError(rejections[1]) >>
              /\ rejections[1] \in MapRejected
              /\ GroupOf(calls[rejections[1]].doc) = GroupOf(calls[k].doc)

C5_Witness ==
    /\ pc = "rejected"
    /\ NumDocs = 3
    /\ chain.batchSize = 2
    /\ chain.delayBetweenBatches > 0
    /\ rejections = << 2, 1 >>
    /\ error = << ModelError(2) >>

(* ---------------- C6 ---------------- *)
\* The calls of the group whose Promise.all invoke awaited last.
FailingGroup == { batchPromises[j] : j \in 1..Len(batchPromises) }
MapFailed == chain.type = "map_reduce" /\ pc = "rejected" /\ batchPromises # << >>

\* C6 as stated: once invoke has rejected on a map failure, no model call of
\* the failing group is in flight.
C6_Original ==
    MapFailed => \A k \in FailingGroup : calls[k].status # "inflight"

\* C6 amended: invoke rejects as soon as one call of the group has rejected;
\* the call whose error it carries has rejected, and the calls still in flight,
\* at most batchSize - 1, all belong to the failing group.
C6_RejectsOnFirstFailure ==
    MapFailed =>
        /\ error[1].call \in FailingGroup
        /\ calls[error[1].call].status = "rejected"
        /\ InFlight \subseteq FailingGroup
        /\ Cardinality(InFlight) <= chain.batchSize - 1

C6_Witness ==
    /\ MapFailed
    /\ chain.batchSize = 2
    /\ Len(rejections) = 1
    /\ Cardinality(InFlight) = 1

(* ---------------- C7 ---------------- *)
\* Number of model calls that precede the first batch: refine's initial call.
CallsBeforeBatches == IF chain.type = "refine" THEN 1 ELSE 0
\* The group (0-based) of the batch loop a batched call belongs to.
BatchGroupOf(k) == (calls[k].doc - 1 - CallsBeforeBatches) \div chain.batchSize

\* C7: the n-th delay is issued when exactly n full groups have been started
\* and all their calls have resolved, a further group remains, and no call
\* starts while the delay runs; every call of group g starts after exactly g
\* delays when the delay is positive; no delay is issued once the final
\* generation (stuff, reduce, agent, retry) has begun.
C7_DelaysOnlyBetweenGroups ==
    /\ \A n \in 1..Len(sleeps) :
          /\ sleeps[n].inflight = 0
          /\ sleeps[n].started = CallsBeforeBatches + n * chain.batchSize
          /\ sleeps[n].started < NumDocs
          /\ \A k \in 1..sleeps[n].started :
                calls[k].status = "resolved" /\ calls[k].kind \in { "map", "question", "refine" }
    /\ pc \in { "map_sleep", "refine_sleep" } =>
          /\ Len(sleeps) >= 1
          /\ Len(calls) = sleeps[Len(sleeps)].started
    /\ \A k \in CallsOfKind({ "map", "refine" }) :
          calls[k].slept = IF chain.delayBetweenBatches > 0 THEN BatchGroupOf(k) ELSE 0
    /\ \A k \in CallsOfKind({ "stuff", "combine", "agent", "retry" }) :
          calls[k].slept = Len(sleeps)
    /\ chain.type \in { "stuff", "unknown" } => sleeps = << >>

C7_Witness ==
    /\ pc = "retry_wait"
    /\ chain.type = "map_reduce"
    /\ NumDocs = 3
    /\ chain.batchSize = 1
    /\ Len(sleeps) = 2

(* ---------------- C8 ---------------- *)
\* C8: with an effective delayBetweenBatches of 0 no sleep is ever issued.
C8_NoSleepWithoutDelay ==
    chain.delayBetweenBatches = 0 => sleeps = << >>

C8_Witness ==
    /\ chain.delayBetweenBatches = 0
    /\ chain.type \in { "map_reduce", "refine" }
    /\ chain.batchSize = 1
    /\ NumDocs = 3
    /\ pc = "resolved"

(* ---------------- C9 ---------------- *)
RetryCalls == CallsOfKind({ "retry" })

\* C9 as stated: the original final generation and the stricter-prompt
\* retries together are at most 3 generation attempts.
C9_Original ==
    RetryCalls # { } => 1 + Cardinality(RetryCalls) <= 3

\* C9 amended: at most maxAttempts = 3 retries follow the original final
\* generation, numbered 1..3 without repetition, so at most 4 attempts; with
\* plain generation at most 4 model calls are made for the final text.
C9_ThreeRetriesAfterOriginal ==
    /\ Cardinality(RetryCalls) <= maxAttempts
    /\ \A k \in RetryCalls : calls[k].attempt \in 1..maxAttempts
    /\ \A a, b \in RetryCalls : calls[a].attempt = calls[b].attempt => a = b
    /\ Cardinality(CallsOfKind({ "stuff", "combine" })) <= 1
    /\ ~UsesAgent => Cardinality(CallsOfKind({ "stuff", "combine", "retry" })) <= 4

C9_Witness ==
    /\ pc = "resolved"
    /\ chain.type = "stuff"
    /\ ~UsesAgent
    /\ Cardinality(CallsOfKind({ "stuff", "combine", "retry" })) = 4
    /\ ~result[1].sizeValidation.isValid

(* ---------------- C10 ---------------- *)
RetryEntered == RetryCalls # { }

\* C10 as stated: retryCount is 0 or 1; 0 exactly when the first validation
\* passed or no limit is set; 1 exactly when the retry path was entered.
C10_Original ==
    result # << >> =>
        LET rc == result[1].sizeValidation.retryCount IN
        /\ rc \in { 0, 1 }
        /\ rc = 0 <=> (firstValidation[1].isValid \/ ~chain.outputSize.defined)
        /\ rc = 1 <=> RetryEntered

(* ---------------- C11 ---------------- *)
\* The retry call of the given attempt number (0 when there is none).
RetryCallOf(att) ==
    IF \E k \in RetryCalls : calls[k].attempt = att
    THEN CHOOSE k \in RetryCalls : calls[k].attempt = att
    ELSE 0
\* Every retry made so far has resolved with a text over the limit.
AllRetriesOversized ==
    \A k \in RetryCalls :
        calls[k].status = "resolved"
        /\ ~validateOutputSize(ResultText(calls[k].response)).isValid

\* C11: size overflow is never an exception.  invoke rejects only on an
\* unknown type or after a model call rejected; when all maxAttempts retries
\* came back over the limit no further call is made and invoke resolves with
\* the text of the last retry, isValid = false and a warning.
C11_OverflowIsReturned ==
    /\ pc = "rejected" => (chain.type = "unknown" \/ rejections # << >>)
    /\ (pc = "retry_wait" /\ AllRetriesOversized) => attempt = Cardinality(RetryCalls)
    /\ (Cardinality(RetryCalls) = maxAttempts /\ AllRetriesOversized) =>
          /\ pc \in { "retry_wait", "resolved" }
          /\ RetryCallOf(maxAttempts) = LastCall
          /\ pc = "resolved" =>
                /\ result[1].text = ResultText(calls[LastCall].response)
                /\ ~result[1].sizeValidation.isValid
                /\ "warning" \in DOMAIN result[1].sizeValidation
                /\ result[1].sizeValidation.retryCount = 1

C11_Witness ==
    /\ pc = "resolved"
    /\ chain.type = "map_reduce"
    /\ NumDocs = 2
    /\ rejections = << >>
    /\ Cardinality(RetryCalls) = maxAttempts
    /\ AllRetriesOversized
    /\ result[1].text = LongText

(* ---------------- C12 ---------------- *)
\* C12 as stated: for every configured limit L the validation of the returned
\* text reports isValid = (actualSize <= L) with maxSize = L, and a warning
\* exactly when isValid is false.
C12_Original ==
    (result # << >> /\ chain.outputSize.defined) =>
        LET v == result[1].sizeValidation
            L == chain.outputSize.value
            size == measureTextSize(result[1].text)
        IN /\ v.actualSize = size
           /\ v.isValid = (size <= L)
           /\ "maxSize" \in DOMAIN v
           /\ v.maxSize = L
           /\ ("warning" \in DOMAIN v) = ~v.isValid

C14_Original ==
    (chain.type = "refine" /\ NumDocs = 0 /\ pc # "idle") =>
        /\ pc = "resolved"
        /\ result[1].text = EmptyText
        /\ result[1].sizeValidation.isValid
        /\ result[1].sizeValidation.retryCount = 0
        /\ calls = << >>
        /\ sleeps = << >>
        /\ agentBuilt = 0

(* ---------------- C15 ---------------- *)
RefineCalls == CallsOfKind({ "question", "refine" })

\* C15: in Refine the k-th model call is the call for document k; it is
\* started only when the call for document k - 1 has resolved, and its prompt
\* carries the response to that call as the existing summary; when no size
\* retry occurs the returned text is the response to the last document's call.
C15_RefineSequential ==
    chain.type = "refine" =>
        /\ \A k \in RefineCalls :
              /\ calls[k].doc = k
              /\ calls[k].text = documents[k]
              /\ (calls[k].kind = "question") = (k = 1)
              /\ k > 1 =>
                    /\ calls[k - 1].status = "resolved"
                    /\ calls[k].existing = ResultText(calls[k - 1].response)
        /\ (pc = "resolved" /\ NumDocs >= 1 /\ RetryCalls = { }) =>
              /\ RefineCalls = 1..NumDocs
              /\ result[1].text = ResultText(calls[NumDocs].response)

C15_Witness ==
    /\ chain.type = "refine"
    /\ pc = "resolved"
    /\ NumDocs = 3
    /\ RetryCalls = { }
    /\ calls[2].existing = ShortText
    /\ calls[3].existing = LongText
    /\ result[1].text = ShortText

(* ---------------- C16 ---------------- *)
\* C16: a Refine invoke on N >= 1 documents with delay > 0 that resolved
\* without failure and without size retry has made exactly N model calls and
\* exactly max(0, ceil((N - 1) / B) - 1) inter-batch delays.
C16_RefineCallsAndDelays ==
    (/\ chain.type = "refine"
     /\ pc = "resolved"
     /\ NumDocs >= 1
     /\ chain.delayBetweenBatches > 0
     /\ RetryCalls = { }) =>
        /\ Len(calls) = NumDocs
        /\ rejections = << >>
        /\ Len(sleeps) = Max2(0, CeilDiv(NumDocs - 1, chain.batchSize) - 1)
        /\ \A n \in 1..Len(sleeps) : sleeps[n].ms = chain.delayBetweenBatches

C16_Witness ==
    /\ chain.type = "refine"
    /\ pc = "resolved"
    /\ NumDocs = 3
    /\ chain.batchSize = 1
    /\ chain.delayBetweenBatches = 5
    /\ RetryCalls = { }
    /\ Len(calls) = 3
    /\ Len(sleeps) = 1

(* ---------------- C17 ---------------- *)
\* C17: a MapReduce invoke on N >= 0 documents that resolved without agent
\* assist and without size retry has made exactly N + 1 model calls: one per
\* document and then one combine call.
C17_MapReduceCalls ==
    (/\ chain.type = "map_reduce"
     /\ pc = "resolved"
     /\ ~UsesAgent
     /\ RetryCalls = { }) =>
        /\ Len(calls) = NumDocs + 1
        /\ rejections = << >>
        /\ \A d \in 1..NumDocs : calls[d].kind = "map" /\ Cardinality(MapCallsOf(d)) = 1
        /\ calls[NumDocs + 1].kind = "combine"

C17_Witness ==
    /\ chain.type = "map_reduce"
    /\ pc = "resolved"
    /\ ~UsesAgent
    /\ RetryCalls = { }
    /\ NumDocs = 0
    /\ Len(calls) = 1
    /\ calls[1].text = EmptyText

(* ---------------- C18 ---------------- *)
\* C18: a Stuff invoke without agent assist makes one model call, for the
\* join of all the documents, and never sleeps, whatever the number of
\* documents, the batch size and the delay; further calls are size retries only.
C18_StuffOneCall ==
    (chain.type = "stuff" /\ ~UsesAgent) =>
        /\ sleeps = << >>
        /\ Cardinality(CallsOfKind({ "stuff" })) <= 1
        /\ \A k \in 1..Len(calls) : calls[k].kind \in { "stuff", "retry" }
        /\ pc # "idle" =>
              /\ calls[1].kind = "stuff"
              /\ calls[1].text = Join(documents, SEPARATOR)
        /\ RetryCalls = { } => Len(calls) <= 1
        /\ (pc = "resolved" /\ RetryCalls = { }) => Len(calls) = 1

C18_Witness ==
    /\ chain.type = "stuff"
    /\ ~UsesAgent
    /\ pc = "resolved"
    /\ RetryCalls = { }
    /\ NumDocs = 3
    /\ chain.batchSize = 1
    /\ chain.delayBetweenBatches = 5
    /\ Len(calls) = 1

(* ---------------- C19 ---------------- *)
\* The phase of mapReduce a model call belongs to.
PhaseOf(k) ==
    CASE calls[k].kind = "map" -> 0
      [] calls[k].kind \in { "agent", "combine" } -> 1
      [] OTHER -> 2
ReduceBegun ==
    \/ CallsOfKind({ "agent", "combine", "retry" }) # { }
    \/ agentBuilt > 0
    \/ pc \in { "agent_create", "agent_run", "agent_wait", "plain_wait", "retry_wait",
                 "resolved" }

\* C19: in MapReduce the model calls are ordered map, reduce, retry and no
\* phase is re-entered; the reduce step begins only when every document's map
\* call has resolved; the size validation happens only after the reduce call
\* (or the agent) has returned, on the text it returned; retries exist only
\* after a failed validation, each after the previous retry failed it too;
\* invoke resolves only after the validation.
C19_PhaseOrder ==
    chain.type = "map_reduce" =>
        /\ \A a, b \in 1..Len(calls) : a < b => PhaseOf(a) <= PhaseOf(b)
        /\ Cardinality(CallsOfKind({ "combine" })) <= 1
        /\ ReduceBegun =>
              /\ Len(summaries) = NumDocs
              /\ \A d \in 1..NumDocs :
                    \E k \in MapCallsOf(d) : calls[k].status = "resolved"
              /\ MapRejected = { }
        /\ firstValidation # << >> =>
              /\ ReduceBegun
              /\ \A k \in CallsOfKind({ "agent", "combine" }) : calls[k].status # "inflight"
              /\ \A k \in CallsOfKind({ "combine" }) :
                    /\ calls[k].status = "resolved"
                    /\ firstValidation[1] = validateOutputSize(ResultText(calls[k].response))
              /\ CallsOfKind({ "combine" }) # { } \/ agentBuilt > 0
        /\ RetryCalls # { } =>
              /\ firstValidation # << >>
              /\ ~firstValidation[1].isValid
        /\ \A a, b \in RetryCalls :
              a < b => /\ calls[a].status = "resolved"
                       /\ ~validateOutputSize(ResultText(calls[a].response)).isValid
        /\ pc = "resolved" => firstValidation # << >>

C19_Witness ==
    /\ chain.type = "map_reduce"
    /\ pc = "resolved"
    /\ NumDocs = 3
    /\ chain.batchSize = 2
    /\ agentBuilt = 1
    /\ CallsOfKind({ "agent" }) # { }
    /\ CallsOfKind({ "combine" }) # { }
    /\ Cardinality(RetryCalls) = 2
    /\ result[1].sizeValidation.isValid

(* ---------------- C20 ---------------- *)
\* C20: with an unknown strategy type invoke rejects with the 'Unknown
\* summarization type' error and no model call, delay or agent construction
\* ever occurs, for every document list.
C20_UnknownTypeRejects ==
    chain.type \notin { "map_reduce", "stuff", "refine" } =>
        /\ pc \in { "idle", "rejected" }
        /\ pc = "rejected" => error = << UnknownTypeError >>
        /\ calls = << >>
        /\ sleeps = << >>
        /\ agentBuilt = 0
        /\ result = << >>

C20_Witness ==
    /\ chain.type = "unknown"
    /\ pc = "rejected"
    /\ NumDocs = 3
    /\ UsesAgent
    /\ error = << UnknownTypeError >>

(* ---------------- C21 ---------------- *)
Rejected == { k \in 1..Len(calls) : calls[k].status = "rejected" }
\* What holds after a model call rejected, without agent assist, apart from
\* the error invoke rejects with: invoke is at the await that throws or has
\* rejected, no prompt is submitted twice, and a retry call exists only after
\* calls that all resolved, the first validation having failed.
NoRetryOfRejected ==
    /\ Rejected # { } => pc \in { "map_wait", "plain_wait", "question_wait",
                                   "refine_wait", "retry_wait", "rejected" }
    /\ \A a, b \in 1..Len(calls) : a # b => PromptOf(a) # PromptOf(b)
    /\ \A k \in RetryCalls :
          /\ \A j \in 1..(k - 1) : calls[j].status = "resolved"
          /\ firstValidation # << >>
          /\ ~firstValidation[1].isValid
          /\ firstValidation[1].actualSize > chain.outputSize.value
\* Once a model call has rejected, invoke starts no model call and no delay.
NothingStartsAfterRejection ==
    (~UsesAgent /\ rejections # << >>) =>
        (Len(calls') = Len(calls) /\ Len(sleeps') = Len(sleeps))

\* C21 as stated: without agent assist, when a model call rejects invoke
\* rejects with the error of that call, the prompt is not submitted again and
\* the size retry is entered only after a successful oversized generation.
C21_Original ==
    ~UsesAgent =>
        /\ NoRetryOfRejected
        /\ \A k \in Rejected : pc = "rejected" => error = << ModelError(k) >>

\* C21 amended: invoke rejects with the error of the first model call to
\* reject; no model call or delay is started after a rejection; the rest as
\* stated.
C21_RejectedCallNotRetried ==
    /\ [](~UsesAgent =>
            /\ NoRetryOfRejected
            /\ (pc = "rejected" /\ Rejected # { }) =>
                  error = << ModelError(rejections[1]) >>)
    /\ [][NothingStartsAfterRejection]_vars

C21_Witness ==
    /\ ~UsesAgent
    /\ chain.type = "stuff"
    /\ Truthy(chain.outputSize)
    /\ pc = "rejected"
    /\ Len(calls) = 2
    /\ calls[2].kind = "retry"
    /\ error = << ModelError(2) >>

(* ---------------- C22 ---------------- *)
AgentPcs == { "agent_create", "agent_run", "agent_wait" }
PlainCalls == CallsOfKind({ "stuff", "combine" })
\* The strategies whose final generation takes the agent path.
AgentAssisted == UsesAgent /\ chain.type \in { "stuff", "map_reduce" }
\* A step that leaves the agent path: either the agent returned a text, which
\* is validated, or it failed and exactly one plain call with the normal
\* prompt for the same text is started; invoke does not reject.
LeavesAgentPath ==
    (pc \in AgentPcs /\ pc' \notin AgentPcs) =>
        \/ /\ pc' \in { "retry_wait", "resolved" }
           /\ firstValidation' # << >>
           /\ PlainCalls' = { }
        \/ /\ pc' = "plain_wait"
           /\ Len(calls') = Len(calls) + 1
           /\ PlainCalls' = { Len(calls') }
           /\ calls'[Len(calls')].template = PlainTemplate
           /\ calls'[Len(calls')].text = combinedText
           /\ calls'[Len(calls')].status = "inflight"

\* C22: with agent assist and a size limit, a failure in constructing or
\* running the agent in Stuff or in the MapReduce reduce step is caught and
\* exactly one plain model call with the normal prompt is made instead;
\* invoke rejects only with the error of a map call, of that plain call or of
\* a retry call, never with the agent's.
C22_AgentFailureFallsBack ==
    /\ [](AgentAssisted =>
            /\ Cardinality(PlainCalls) <= 1
            /\ \A k \in PlainCalls :
                  /\ agentBuilt <= 1
                  /\ \A j \in CallsOfKind({ "agent" }) : j < k /\ calls[j].status # "inflight"
                  /\ calls[k].text = combinedText
            /\ pc = "rejected" =>
                  /\ error[1].kind = "model"
                  /\ calls[error[1].call].kind \in { "map", "stuff", "combine", "retry" }
                  /\ calls[error[1].call].status = "rejected")
    /\ [][LeavesAgentPath]_vars

C22_Witness ==
    /\ UsesAgent
    /\ chain.type = "map_reduce"
    /\ NumDocs = 2
    /\ agentBuilt = 1
    /\ \E k \in CallsOfKind({ "agent" }) : calls[k].status = "rejected"
    /\ \E k \in PlainCalls : calls[k].status = "resolved"
    /\ pc = "resolved"

(* ---------------- C23 ---------------- *)
\* The agent path returned the text of the final generation.
AgentProduced == AgentAssisted /\ PlainCalls = { } /\ firstValidation # << >>

\* C23: the text the agent path produced is validated before invoke returns;
\* when it exceeds the limit the stricter-prompt retry runs as after a plain
\* generation, from attempt 1 on the combined input text, and otherwise no
\* retry is made; the result carries the validation of the returned text.
C23_AgentOutputValidated ==
    /\ (AgentAssisted /\ pc = "resolved") => firstValidation # << >>
    /\ AgentProduced =>
          /\ agentBuilt = 1
          /\ pc \in { "retry_wait", "resolved", "rejected" }
          /\ RetryCalls = { } => firstValidation[1] = validateOutputSize(outputText)
          /\ (RetryCalls # { }) = ~firstValidation[1].isValid
          /\ \A k \in RetryCalls :
                /\ calls[k].text = combinedText
                /\ calls[k].template = strictPrompts[StrictPromptIndex(calls[k].attempt) + 1]
                /\ \A j \in CallsOfKind({ "agent" }) : j < k
          /\ RetryCalls # { } => RetryCallOf(1) # 0
          /\ pc = "resolved" =>
                /\ result[1].sizeValidation =
                      validateOutputSize(result[1].text)
                        @@ [ retryCount |-> IF RetryCalls = { } THEN 0 ELSE 1 ]
                /\ (~result[1].sizeValidation.isValid) =>
                      Cardinality(RetryCalls) = maxAttempts

C23_Witness ==
    /\ AgentProduced
    /\ chain.type = "stuff"
    /\ pc = "resolved"
    /\ CallsOfKind({ "agent" }) # { }
    /\ Cardinality(RetryCalls) = 2
    /\ firstValidation[1].actualSize = 5
    /\ result[1].sizeValidation.isValid

(* ---------------- C24 ---------------- *)
\* C24 as stated: once the caller's cancellation signal has fired during an
\* invoke, the model calls in flight are aborted, so none of them completes
\* with a response, and that invoke starts no further model call and no
\* further delay.
C24_Original ==
    [][signal => /\ Len(calls') = Len(calls)
                 /\ Len(sleeps') = Len(sleeps)
                 /\ \A k \in InFlight : calls'[k].status # "resolved"]_vars

(* ---------------- C25 ---------------- *)
\* The value the constructor clamps: the given number rounded down, or the default.
RoundedOrDefault(raw, default) == IF raw.defined THEN Floor(raw) ELSE default
\* v clamped to the nearest bound of [lo, hi].
Nearest(v, lo, hi) == IF v < lo THEN lo ELSE IF v > hi THEN hi ELSE v

\* C25: the effective batch size lies in [1, 1000] and the effective delay in
\* [0, 600000]; a value outside is clamped to the nearest bound and a value
\* inside is kept; every group an invoke forms has at most batchSize
\* documents and every delay it issues lasts delayBetweenBatches.
C25_ClampedAtConstruction ==
    /\ chain.batchSize \in MIN_BATCH_SIZE..MAX_BATCH_SIZE
    /\ chain.delayBetweenBatches \in MIN_DELAY..MAX_DELAY
    /\ chain.batchSize =
          Nearest(RoundedOrDefault(params.batchSize, DEFAULT_BATCH_SIZE), 1, 1000)
    /\ chain.delayBetweenBatches =
          Nearest(RoundedOrDefault(params.delayBetweenBatches, DEFAULT_DELAY_BETWEEN_BATCHES),
                  0, 600000)
    /\ Len(batchPromises) <= chain.batchSize
    /\ Cardinality(InFlight) <= chain.batchSize
    /\ pc = "map_wait" => Len(batchPromises) = Min2(chain.batchSize, NumDocs - i)
    /\ pc \in { "refine_wait", "refine_sleep" } =>
          batchPos <= Min2(chain.batchSize, NumRemaining - i)
    /\ \A n \in 1..Len(sleeps) :
          /\ sleeps[n].ms = chain.delayBetweenBatches
          /\ sleeps[n].ms \in 1..MAX_DELAY

C25_Witness ==
    /\ params.batchSize = Num(-3)
    /\ chain.batchSize = MIN_BATCH_SIZE
    /\ params.delayBetweenBatches = Num(MAX_DELAY + 1)
    /\ NumDocs = 3
    /\ pc = "map_sleep"
    /\ sleeps = << [ ms |-> MAX_DELAY, inflight |-> 0, started |-> 1 ] >>

(* ---------------- C26 ---------------- *)
NonPositiveBatchSize == params.batchSize.defined /\ params.batchSize.value <= 0
\* The number of groups the batch loop has started.
GroupsStarted == { BatchGroupOf(k) : k \in CallsOfKind({ "map", "refine" }) }

\* C26: with a configured batch size of 0 or less the effective batch size is
\* 1: every group of the map loop and of the refine loop holds exactly one
\* document, the loop index only grows and stays below the number of
\* documents of the loop, and a loop that has ended has run one group per
\* document.
C26_NonPositiveBatchSizeIsOne ==
    /\ [](NonPositiveBatchSize =>
            /\ chain.batchSize = 1
            /\ pc = "map_wait" => (Len(batchPromises) = 1 /\ i < NumDocs)
            /\ pc \in { "refine_wait", "refine_sleep" } => i < NumRemaining
            /\ \A a, b \in CallsOfKind({ "map", "refine" }) :
                  a # b => BatchGroupOf(a) # BatchGroupOf(b)
            /\ MapPhaseDone => GroupsStarted = 0..(NumDocs - 1)
            /\ (chain.type = "refine" /\ pc \in { "retry_wait", "resolved" }
                   /\ NumDocs >= 1) =>
                  GroupsStarted = 0..(NumRemaining - 1))
    /\ [][(NonPositiveBatchSize /\ i' # i) => i' = i + 1]_vars

C26_Witness ==
    /\ params.batchSize = Num(0)
    /\ chain.type = "map_reduce"
    /\ NumDocs = 3
    /\ MapPhaseDone
    /\ i = 2
    /\ Cardinality(GroupsStarted) = 3

(* ---------------- C27 ---------------- *)
\* The settings of a chain other than its model handle.
Settings(c) ==
    << c.type, c.batchSize, c.delayBetweenBatches, c.outputSize, c.sizeMeasurement,
       c.useAgent, c.prompts >>
\* The withConfig call rebinds: config is truthy and the model exposes withConfig.
Rebinds(w) == w.config.truthy /\ w.before.model.hasWithConfig

\* C27: the strategy withConfig returns has the type, batch size, delay, size
\* limit, size unit, agent flag and prompts of the receiver; its model handle
\* is the receiver's handle bound to the config when config is truthy and the
\* model exposes withConfig, and otherwise nothing differs from the receiver.
C27_WithConfigKeepsSettings ==
    /\ Settings(chain) = Settings(Construct(params))
    /\ \A n \in 1..Len(configured) :
          LET w == configured[n] IN
          /\ Settings(w.returned.fields) = Settings(w.before)
          /\ w.returned.fields.model =
                IF Rebinds(w) THEN ModelWithConfig(w.before.model) ELSE w.before.model
          /\ Rebinds(w) => w.returned.fields.model # w.before.model
          /\ ~Rebinds(w) => (w.returned.fields = w.before /\ w.receiver = w.before)

C27_Witness ==
    /\ Len(configured) = 1
    /\ Rebinds(configured[1])
    /\ configured[1].before.prompts = Given("custom")
    /\ configured[1].before.batchSize = MIN_BATCH_SIZE
    /\ configured[1].returned.fields.model.configs = 1
    /\ pc = "idle"

(* ---------------- C28 ---------------- *)
\* C28 as stated: withConfig returns a new strategy, equivalent to the
\* receiver, and the receiver stays bound to its original model handle.
C28_Original ==
    \A n \in 1..Len(configured) :
        LET w == configured[n] IN
        /\ ~w.returned.isReceiver
        /\ Settings(w.returned.fields) = Settings(w.before)
        /\ w.receiver.model = w.before.model

\* C28 amended: withConfig returns the strategy it was called on; that
\* instance keeps its settings and is itself bound to the new model handle
\* when the call rebinds.
C28_WithConfigReturnsReceiver ==
    /\ \A n \in 1..Len(configured) :
          LET w == configured[n] IN
          /\ w.returned.isReceiver
          /\ w.returned.fields = w.receiver
          /\ Settings(w.receiver) = Settings(w.before)
          /\ Rebinds(w) => w.receiver.model = ModelWithConfig(w.before.model)
    /\ configured # << >> => chain = configured[Len(configured)].receiver

C28_Witness ==
    /\ Len(configured) = 1
    /\ Rebinds(configured[1])
    /\ configured[1].returned.isReceiver
    /\ chain.model # params.model
    /\ pc = "plain_wait"

(* ---------------- C29 ---------------- *)
\* The handle this.model holds after the last of the withConfig calls ns.
HandleAfter(ns) ==
    IF ns = {} THEN params.model
    ELSE configured[CHOOSE n \in ns : \A m \in ns : m <= n].receiver.model
\* The handle this.model holds when call k is started.
HandleAt(k) == HandleAfter({ n \in 1..Len(configured) : configured[n].started < k })
\* The model calls invoke has started when it turns to the agent executor.
CallsBeforeAgent == IF chain.type = "stuff" THEN 0 ELSE NumDocs
\* The handle this.model held when the agent executor was constructed.
HandleOfAgent ==
    HandleAfter({ n \in 1..Len(configured) :
                    /\ configured[n].started <= CallsBeforeAgent
                    /\ configured[n].at \notin AgentPcs })

\* C29 as stated: every model call an invoke makes after a withConfig on its
\* instance goes to the rebound handle.
C29_Original ==
    \A k \in 1..Len(calls) : calls[k].model = HandleAt(k)

\* C29 amended: the model calls invoke makes itself go to the handle the
\* instance holds when the call starts, so a withConfig between two of them
\* makes one invoke use two handles; the calls of an agent executor go to the
\* handle the instance held when the executor was constructed, whatever
\* withConfig did afterwards.
C29_RebindingReachesRunningInvoke ==
    \A k \in 1..Len(calls) :
        /\ calls[k].kind # "agent" => calls[k].model = HandleAt(k)
        /\ calls[k].kind = "agent" => calls[k].model = HandleOfAgent

C29_Witness ==
    /\ pc = "resolved"
    /\ Len(calls) = 3
    /\ Len(configured) = 1
    /\ configured[1].started = 1
    /\ calls[1].model = params.model
    /\ calls[2].model # params.model
    /\ calls[3].model = calls[2].model

(* ---------------- C30 ---------------- *)
\* The entries of returnData pushed for item j.
EntriesOf(j) == { e \in 1..Len(node.returnData) : node.returnData[e].item = j }
Failures == { node.failures[f] : f \in 1..Len(node.failures) }

\* C30: in the execute loop, when processItem rejects for an item: with
\* continueOnFail the item gets one entry carrying the error, the loop goes on
\* to the items after it and execute returns only after the last item; without
\* continueOnFail execute rejects with that error, stays at the failed item,
\* and no later item is processed: nothing is pushed, no chain is built and no
\* model call starts afterwards.
C30_ContinueOnFail ==
    /\ [](node.pc # "none" /\ node.continueOnFail =>
            /\ node.pc # "thrown"
            /\ \A f \in Failures :
                  /\ f.item < node.itemIndex
                  /\ \E e \in EntriesOf(f.item) :
                        /\ EntriesOf(f.item) = { e }
                        /\ node.returnData[e].json = [ error |-> f.error ]
            /\ node.pc = "returned" => node.itemIndex = node.numItems)
    /\ [](node.pc # "none" /\ ~node.continueOnFail =>
            /\ Len(node.failures) <= 1
            /\ node.pc = "thrown" <=> Failures # {}
            /\ \A f \in Failures :
                  /\ node.thrown = f.error
                  /\ node.itemIndex = f.item
                  /\ \A j \in f.item..node.numItems : EntriesOf(j) = {})
    /\ [][node.pc = "thrown" =>
            /\ node' = node
            /\ chain' = chain
            /\ Len(calls') = Len(calls)]_vars

C30_Witness ==
    /\ node.pc = "returned"
    /\ node.continueOnFail
    /\ node.numItems = 2
    /\ node.failures = << [ item |-> 0, error |-> ModelError(2) ] >>
    /\ Len(node.returnData) = 2
    /\ node.returnData[1] = [ item |-> 0, json |-> [ error |-> ModelError(2) ] ]
    /\ node.returnData[2].item = 1
    /\ "text" \in DOMAIN node.returnData[2].json

(* ---------------- C31 ---------------- *)
\* processItem for the current item has been called and has not settled.
ItemInProgress == node.pc \in { "connecting", "loading", "invoking" }
\* execute runs with a supported operation mode.
Supported == node.operationMode \in SupportedModes

\* C31: execute works on one item at a time, in input order: the item index
\* only steps by one, and only when processItem for the current item has
\* settled (after chain.invoke, when invoke has resolved or rejected); the
\* entries of returnData are for items already left, at most one per item and
\* in input order; when execute returns in a supported mode there is exactly
\* one entry per item, in an unsupported mode only the failed items have an
\* entry, and for empty input there is none.
\* Execute returns only when every item succeeded or continueOnFail is set.
C31_ItemsInOrder ==
    /\ [](node.pc # "none" =>
            /\ node.itemIndex <= node.numItems
            /\ ItemInProgress => node.itemIndex < node.numItems
            /\ Len(node.returnData) <= node.itemIndex
            /\ \A e \in 1..Len(node.returnData) :
                  /\ node.returnData[e].item < node.itemIndex
                  /\ \A d \in 1..(e - 1) :
                        node.returnData[d].item < node.returnData[e].item
            /\ node.pc = "returned" =>
                  /\ node.continueOnFail \/ node.failures = << >>
                  /\ node.itemIndex = node.numItems
                  /\ Supported =>
                        /\ Len(node.returnData) = node.numItems
                        /\ \A e \in 1..node.numItems : node.returnData[e].item = e - 1
                  /\ ~Supported => Len(node.returnData) = Len(node.failures)
            /\ node.numItems = 0 => (node.pc = "returned" /\ node.returnData = << >>))
    /\ [][node.pc # "none" /\ node'.itemIndex # node.itemIndex =>
            /\ node'.itemIndex = node.itemIndex + 1
            /\ ItemInProgress
            /\ node.pc = "invoking" => pc \in { "resolved", "rejected" }
            /\ Len(calls') = Len(calls)]_vars
    /\ [][node.pc # "none" /\ Len(calls') > Len(calls) => node.pc \in { "loading", "invoking" }]_vars

C31_Witness ==
    /\ node.pc = "returned"
    /\ node.numItems = 2
    /\ node.late = 1
    /\ Len(node.returnData) = 2
    /\ node.returnData[1] = [ item |-> 0, json |-> [ error |-> ModelError(1) ] ]
    /\ node.returnData[2].item = 1
    /\ "text" \in DOMAIN node.returnData[2].json

(* ---------------- C32 ---------------- *)
\* The calls refine makes for a document: the question call for the first
\* document and the refinement calls for the others.
DocumentCalls == { k \in 1..Len(calls) : calls[k].kind \in { "question", "refine" } }

\* C32: in refine, when the model call for a document has rejected, it is the
\* last model call made, no call exists for a later document, no delay was
\* started after it, invoke does not resolve, and once invoke has rejected its
\* error is the error of that call.
C32_RefineStopsAtRejection ==
    chain.type = "refine" =>
        \A k \in DocumentCalls :
            calls[k].status = "rejected" =>
                /\ k = Len(calls)
                /\ calls[k].doc = k
                /\ \A m \in 1..Len(calls) : calls[m].doc <= calls[k].doc
                /\ \A s \in 1..Len(sleeps) : sleeps[s].started < k
                /\ pc \in { "question_wait", "refine_wait", "rejected" }
                /\ pc = "rejected" => error = << ModelError(k) >>
                /\ result = << >>

C32_Witness ==
    /\ chain.type = "refine"
    /\ NumDocs = 3
    /\ chain.batchSize = 1
    /\ chain.delayBetweenBatches > 0
    /\ Len(calls) = 2
    /\ calls[1].status = "resolved"
    /\ calls[2].status = "rejected"
    /\ sleeps = << >>
    /\ pc = "rejected"
    /\ error = << ModelError(2) >>

(* ---------------- C33 ---------------- *)
\* The response of retry call k fits the limit.
RetryFits(k) ==
    calls[k].status = "resolved" /\ validateOutputSize(ResultText(calls[k].response)).isValid
\* The retry calls made before call k.
RetriesBefore(k) == { m \in RetryCalls : m < k }

\* C33: the a-th size retry has attempt number a <= 3 and uses the template
\* of index min(a - 1, 2); it starts only when every earlier call has settled
\* and every earlier retry has resolved over the limit; after a retry that
\* fits, or after attempt 3, no further call is made, and invoke resolves
\* with the response of the last retry made.
C33_RetriesSequential ==
    /\ \A k \in RetryCalls :
          LET a == Cardinality(RetriesBefore(k)) + 1 IN
          /\ calls[k].attempt = a
          /\ a <= maxAttempts
          /\ calls[k].template = strictPrompts[Min2(a - 1, 2) + 1]
          /\ \A m \in 1..(k - 1) : calls[m].status # "inflight"
          /\ \A m \in RetriesBefore(k) : calls[m].status = "resolved" /\ ~RetryFits(m)
          /\ (RetryFits(k) \/ a = maxAttempts) => k = Len(calls)
    /\ (pc = "resolved" /\ RetryCalls # {}) =>
          /\ calls[Len(calls)].kind = "retry"
          /\ calls[Len(calls)].status = "resolved"
          /\ RetryFits(Len(calls)) \/ calls[Len(calls)].attempt = maxAttempts
          /\ result[1].text = ResultText(calls[Len(calls)].response)

C33_Witness ==
    /\ pc = "resolved"
    /\ chain.type = "stuff"
    /\ chain.outputSize = Num(2)
    /\ Cardinality(RetryCalls) = 2
    /\ Len(calls) = 3
    /\ calls[2].template = strictPrompts[1]
    /\ calls[3].template = strictPrompts[2]
    /\ ~RetryFits(2)
    /\ RetryFits(3)
    /\ result[1].text = ShortText

(* ---------------- C34 ---------------- *)
\* The model calls made by an agent executor.
AgentCalls == CallsOfKind({ "agent" })
\* An agent executor is being constructed, has been constructed or has run.
AgentInvolved == pc \in AgentPcs \/ agentBuilt > 0 \/ AgentCalls # {}

\* C34: an agent executor is involved only when useAgent is true and an
\* output size limit is set, only in stuff and mapReduce, at most once per
\* invoke, and in mapReduce only after every map call has resolved; the map
\* calls, the calls of refine and the size retries are plain model calls: none
\* of them is made while the agent executor runs and refine involves no agent.
C34_AgentOnlyForFinalGeneration ==
    /\ AgentInvolved =>
          /\ chain.useAgent
          /\ Truthy(chain.outputSize)
          /\ chain.type \in { "stuff", "map_reduce" }
          /\ agentBuilt <= 1
          /\ chain.type = "map_reduce" =>
                \A d \in 1..NumDocs :
                    \E k \in MapCallsOf(d) : calls[k].status = "resolved"
          /\ chain.type = "stuff" => CallsOfKind({ "map" }) = {}
    /\ \A k \in AgentCalls :
          /\ calls[k].template = "agentPrompt"
          /\ \A m \in CallsOfKind({ "map" }) : m < k
          /\ \A m \in CallsOfKind({ "retry", "stuff", "combine" }) : k < m
    /\ pc \in AgentPcs => CallsOfKind({ "retry", "stuff", "combine" }) = {}
    /\ chain.type = "refine" =>
          \A k \in 1..Len(calls) : calls[k].kind \in { "question", "refine", "retry" }

C34_Witness ==
    /\ pc = "resolved"
    /\ chain.type = "map_reduce"
    /\ NumDocs = 2
    /\ agentBuilt = 1
    /\ Len(calls) = 4
    /\ calls[1].kind = "map"
    /\ calls[2].kind = "map"
    /\ calls[3].kind = "agent"
    /\ calls[4].kind = "retry"

(* ---------------- C35 ---------------- *)
\* A blank line: two newline characters.
BlankLine == << "\n", "\n" >>

\* C35 as stated: the text stuff submits is the contents of all documents in
\* input order joined by two newline characters, and the text mapReduce
\* submits to the reduce step is the map summaries joined the same way.
C35_Original ==
    \A k \in CallsOfKind({ "stuff", "combine", "agent" }) :
        calls[k].text =
            IF chain.type = "stuff"
            THEN Join(documents, BlankLine)
            ELSE Join(summaries, BlankLine)

(* ---------------- C36 ---------------- *)
\* C36 as stated: in every result, actualSize is the measured size of the
\* returned text and, when a limit L is configured, isValid = (actualSize <= L).
C36_Original ==
    result # << >> =>
        LET v == result[1].sizeValidation IN
        /\ v.actualSize = measureTextSize(result[1].text)
        /\ chain.outputSize.defined =>
              v.isValid = (v.actualSize <= chain.outputSize.value)

(* ---------------- C37 ---------------- *)
\* C37 as stated: a result with isValid = false comes only after exactly
\* maxAttempts retry calls that each resolved over the limit, and has
\* retryCount = 1; a result with retryCount = 0 has isValid = true.
C37_Original ==
    result # << >> =>
        LET v == result[1].sizeValidation IN
        /\ ~v.isValid =>
              /\ Cardinality(RetryCalls) = maxAttempts
              /\ AllRetriesOversized
              /\ v.retryCount = 1
        /\ v.retryCount = 0 => v.isValid

(* ---------------- C38 ---------------- *)
Settled == pc \in { "resolved", "rejected" }

\* C38: when every model call and every delay completes, invoke eventually
\* resolves or rejects; without agent assist it never makes more than
\* N + 4 model calls for N documents.
C38_InvokeTerminates ==
    /\ <>Settled
    /\ [](~chain.useAgent => Len(calls) <= NumDocs + 4)

C38_Witness ==
    /\ pc = "resolved"
    /\ ~chain.useAgent
    /\ chain.type = "map_reduce"
    /\ NumDocs = MaxDocs
    /\ Len(calls) = NumDocs + 4
    /\ Len(sleeps) > 0
    /\ \A k \in 1..Len(calls) : calls[k].status = "resolved"

(* ---------------- C39 ---------------- *)
SeqRange(seq) == { seq[n] : n \in 1..Len(seq) }
\* A validation result that knows of no limit.
Unlimited(v) == v.isValid /\ "maxSize" \notin DOMAIN v /\ "warning" \notin DOMAIN v

\* C39: with an output size limit of 0 every validation reports isValid = true
\* without maxSize or warning, whatever the text; no size retry is made, no
\* agent executor is involved and no prompt carries the size-constraint block.
C39_ZeroLimitIsNoLimit ==
    chain.outputSize = Num(0) =>
        /\ \A v \in SeqRange(firstValidation) : Unlimited(v)
        /\ result # << >> =>
              /\ Unlimited(result[1].sizeValidation)
              /\ result[1].sizeValidation.retryCount = 0
        /\ RetryCalls = {}
        /\ ~AgentInvolved
        /\ \A k \in 1..Len(calls) : ~calls[k].sizeBlock

C39_Witness ==
    /\ chain.outputSize = Num(0)
    /\ chain.useAgent
    /\ chain.type = "map_reduce"
    /\ ~chain.prompts.defined
    /\ NumDocs = 2
    /\ pc = "resolved"
    /\ Len(calls) = 3
    /\ result[1].text = LongText
    /\ result[1].sizeValidation.actualSize = 5

(* ---------------- C40 ---------------- *)
\* The tool has accepted the text.
AcceptedByTool(text) ==
    \E t \in SeqRange(toolCalls) : t.text = text /\ t.report.isValid

\* C40: every report of the response_validator tool has the isValid,
\* actualSize, maxSize and unit the chain's validateOutputSize gives for the
\* same text; and when the agent executor returns a text the tool has
\* accepted, invoke resolves with that text at once, valid and without a
\* size retry.
C40_ToolAgreesWithValidation ==
    /\ [](\A t \in SeqRange(toolCalls) :
            /\ t.report.isValid = validateOutputSize(t.text).isValid
            /\ t.report.actualSize = validateOutputSize(t.text).actualSize
            /\ t.report.maxSize = validateOutputSize(t.text).maxSize
            /\ t.report.unit = validateOutputSize(t.text).unit)
    /\ [][(/\ pc = "agent_run"
           /\ pc' \in { "resolved", "retry_wait" }
           /\ AcceptedByTool(outputText')) =>
              /\ pc' = "resolved"
              /\ Len(calls') = Len(calls)
              /\ result'[1].text = outputText'
              /\ result'[1].sizeValidation.isValid
              /\ result'[1].sizeValidation.retryCount = 0]_vars

C40_Witness ==
    /\ pc = "resolved"
    /\ agentBuilt = 1
    /\ Len(toolCalls) = 2
    /\ toolCalls[1].text = << "a", "b" >>
    /\ toolCalls[1].report.isValid
    /\ toolCalls[1].report.actualSize = 2
    /\ toolCalls[2].text = ShortText
    /\ toolCalls[2].report.isValid
    /\ result[1].text = ShortText
    /\ RetryCalls = {}
    /\ PlainCalls = {}

====
